---- MODULE Spec2Model ----
(***************************************************************************)
(* A model of the kumojs virtual machine (class VM): the decoder           *)
(* (readUInt8 .. readString), the evaluation stack (push / pop / peek),    *)
(* the function table and call stack built by the constructor, and the     *)
(* dispatch loop of run(), one action per opcode case.                     *)
(*                                                                         *)
(* A buffer is a sequence of bytes; position p of the JavaScript buffer    *)
(* is element p + 1 of the sequence.  JavaScript values are records        *)
(* tagged by "kind".                                                       *)
(***************************************************************************)
EXTENDS Integers, Sequences, FiniteSets, TLC

VARIABLES
    module,     \* module[i]: the bytecode module passed to the constructor of instance i
    vm,         \* vm[i]: the fields of VM instance i (functions, ip, stack, callStack, bytecode)
    run,        \* run[i]: the activation of run() on instance i (pc, calls, outcome)
    console,    \* console[i]: the lines instance i wrote with console.log
    trace       \* trace[i]: for each dispatcher iteration, the state it started from

vars == <<module, vm, run, console, trace>>

----------------------------------------------------------------------------
(* Bounds of the model *)

\* the largest number of instruction chunks in a generated entry buffer
MaxInstr == 3
\* the largest number of calls of run() on one instance
MaxRuns == 2
\* the largest number of instruction chunks of a buffer run by two instances
MaxInstrPair == 2
\* the largest number of calls of run() on each of two instances
MaxRunsPair == 1
\* the largest length of a buffer read by direct calls of the integer readers
MaxDecoderLen == 5

----------------------------------------------------------------------------
(* Opcodes: the case labels of the switch in run() *)

OP_LOAD_STRING == 1
OP_LOAD_FLOAT64 == 2
OP_LOAD_BOOL == 3
OP_POP == 4
OP_LOAD_NULL == 5
OP_LOAD_REGEX == 6
OP_LOAD_UNDEFINED == 7
OP_RETURN == 8

KnownOpcodes ==
    {OP_LOAD_STRING, OP_LOAD_FLOAT64, OP_LOAD_BOOL, OP_POP, OP_LOAD_NULL,
     OP_LOAD_REGEX, OP_LOAD_UNDEFINED, OP_RETURN}

----------------------------------------------------------------------------
(* JavaScript values *)

Undefined == [kind |-> "undefined"]
Null == [kind |-> "null"]
Bool(b) == [kind |-> "boolean", b |-> b]
Str(units) == [kind |-> "string", units |-> units]
NaN == [kind |-> "number", nan |-> TRUE]
\* a double that is not NaN: sign bit, 11 exponent bits, 52 fraction bits
\* (the high 26 and the low 26, so that every field fits TLC's integers)
Num(sign, exp, fracHi, fracLo) ==
    [kind |-> "number", nan |-> FALSE, sign |-> sign, exp |-> exp,
     fracHi |-> fracHi, fracLo |-> fracLo]

\* what reading a typed array beyond its end yields (undefined), as an element
UndefinedElem == -1

\* a conversion that wraps the missing element like a number
ToUint8Wraps(x) == x % 256

\* ToUint8 of the typed-array and DataView setters: undefined -> NaN -> 0
ToUint8(x) == IF x = UndefinedElem THEN 0 ELSE x % 256

\* String.fromCharCode.apply(null, bytes): one code unit (ToUint16) per element
FromCharCode(bytes) == Str([k \in 1..Len(bytes) |-> bytes[k] % 65536])

----------------------------------------------------------------------------
(* The decoder.  An operator that moves the instruction pointer returns    *)
(* the instance after the read (vm) and the value read (val).              *)

\* this.bytecode[p]: the byte at position p, undefined beyond the end
At(bytecode, p) ==
    IF p >= 0 /\ p < Len(bytecode) THEN bytecode[p + 1] ELSE UndefinedElem

\* a read that moves the pointer after reading: this.bytecode[this.ip++]
readUInt8PostIncrement(v) ==
    [vm |-> [v EXCEPT !.ip = @ + 1],
     val |-> IF v.ip >= 0 /\ v.ip < Len(v.bytecode) THEN v.bytecode[v.ip + 1] ELSE -1]

\* readUInt8: return this.bytecode[++this.ip]
readUInt8(v) ==
    LET moved == [v EXCEPT !.ip = @ + 1]
    IN  [vm |-> moved, val |-> At(moved.bytecode, moved.ip)]

\* ToInt32 of an element, as the operands of | and << are converted:
\* undefined -> NaN -> 0
ElemToInt32(x) == IF x = UndefinedElem THEN 0 ELSE x

\* x << 24 on 32-bit integers, for a byte x: bit 7 of x becomes the sign bit
ShiftLeft24(x) == IF x >= 128 THEN (x - 256) * 16777216 ELSE x * 16777216

\* readUInt16: this.bytecode[++this.ip] | (this.bytecode[++this.ip] << 8).
\* The operands have no bit in common, so | adds them.
readUInt16(v) ==
    LET r0 == readUInt8(v)
        r1 == readUInt8(r0.vm)
    IN  [vm |-> r1.vm, val |-> ElemToInt32(r0.val) + ElemToInt32(r1.val) * 256]

\* readUInt32: four bytes combined with << 8, << 16, << 24 and |, a signed
\* 32-bit result
readUInt32(v) ==
    LET r0 == readUInt8(v)
        r1 == readUInt8(r0.vm)
        r2 == readUInt8(r1.vm)
        r3 == readUInt8(r2.vm)
    IN  [vm |-> r3.vm,
         val |-> ElemToInt32(r0.val) + ElemToInt32(r1.val) * 256
                 + ElemToInt32(r2.val) * 65536 + ShiftLeft24(ElemToInt32(r3.val))]

\* new DataView(new ArrayBuffer(8)): eight zero bytes at offsets 0..7
NewDataView == [k \in 0..7 |-> 0]

\* dataview.setUint8(offset, x)
SetUint8(dv, offset, x) == [dv EXCEPT ![offset] = ToUint8(x)]

\* a getFloat64 that reads big-endian whatever the flag says
GetFloat64BigEndian(dv, littleEndian) ==
    LET sign == dv[0] \div 128
        exp == (dv[0] % 128) * 16 + (dv[1] \div 16)
        fracHi == (dv[1] % 16) * 4194304 + dv[2] * 16384 + dv[3] * 64 + (dv[4] \div 4)
        fracLo == (dv[4] % 4) * 16777216 + dv[5] * 65536 + dv[6] * 256 + dv[7]
    IN  IF exp = 2047 /\ (fracHi # 0 \/ fracLo # 0)
        THEN NaN
        ELSE Num(sign, exp, fracHi, fracLo)

\* dataview.getFloat64(0, littleEndian): the IEEE-754 double whose byte of
\* significance k (0 the least) is at offset k when littleEndian, else at 7 - k
GetFloat64(dv, littleEndian) ==
    LET b(k) == IF littleEndian THEN dv[k] ELSE dv[7 - k]
        sign == b(7) \div 128
        exp == (b(7) % 128) * 16 + (b(6) \div 16)
        fracHi == (b(6) % 16) * 4194304 + b(5) * 16384 + b(4) * 64 + (b(3) \div 4)
        fracLo == (b(3) % 4) * 16777216 + b(2) * 65536 + b(1) * 256 + b(0)
    IN  IF exp = 2047 /\ (fracHi # 0 \/ fracLo # 0)
        THEN NaN
        ELSE Num(sign, exp, fracHi, fracLo)

\* the for loop of readFloat64, from iteration i on
RECURSIVE ReadFloat64Loop(_, _, _)
ReadFloat64Loop(v, dv, i) ==
    IF i < 8
    THEN LET r == readUInt8(v)
         IN  ReadFloat64Loop(r.vm, SetUint8(dv, i, r.val), i + 1)
    ELSE [vm |-> v, val |-> GetFloat64(dv, TRUE)]

readFloat64(v) == ReadFloat64Loop(v, NewDataView, 0)

\* the while loop of readString, with the bytes collected so far
RECURSIVE ReadStringLoop(_, _)
ReadStringLoop(v, stringBytes) ==
    IF v.ip < Len(v.bytecode) /\ At(v.bytecode, v.ip) # 0
    THEN ReadStringLoop([v EXCEPT !.ip = @ + 1],
                        Append(stringBytes, At(v.bytecode, v.ip)))
    ELSE [vm |-> v, val |-> FromCharCode(stringBytes)]

\* a readString that also steps over the terminator it stopped at
readStringPastTerminator(v) ==
    LET r == ReadStringLoop(v, <<>>)
    IN  [vm |-> [r.vm EXCEPT !.ip = @ + 1], val |-> r.val]

readString(v) == ReadStringLoop(v, <<>>)

----------------------------------------------------------------------------
(* The evaluation stack: the top is the last element *)

\* a push at the wrong end, as Array.prototype.unshift would
pushFront(v, value) == [v EXCEPT !.stack = <<value>> \o @]

push(v, value) == [v EXCEPT !.stack = Append(@, value)]

\* a pop that takes the oldest element, as Array.prototype.shift would
popShift(v) ==
    IF Len(v.stack) = 0
    THEN [vm |-> v, val |-> [kind |-> "undefined"]]
    ELSE [vm |-> [v EXCEPT !.stack = Tail(@)], val |-> Head(v.stack)]

\* Array.prototype.pop: undefined, and no change, on an empty array
pop(v) ==
    IF Len(v.stack) = 0
    THEN [vm |-> v, val |-> Undefined]
    ELSE [vm |-> [v EXCEPT !.stack = SubSeq(@, 1, Len(@) - 1)],
          val |-> v.stack[Len(v.stack)]]

peek(v) == IF Len(v.stack) = 0 THEN Undefined ELSE v.stack[Len(v.stack)]

----------------------------------------------------------------------------
(* Construction *)

\* new VirtualFunction(code): this.code = new Uint8Array(code), a fresh copy
VirtualFunction(code) == [code |-> [k \in 1..Len(code) |-> ToUint8(code[k])]]

\* new StackFrame(func): func is the referenced function, named by its index
\* in this.functions (0 is the first)
StackFrame(func) == [func |-> func]

\* a constructor whose first frame references the last function of the table
NewVMLastFunction(bytecode) ==
    LET functions == [k \in 1..Len(bytecode) |-> VirtualFunction(bytecode[k])]
    IN  [functions |-> functions,
         ip |-> 0,
         stack |-> <<>>,
         callStack |-> <<StackFrame(Len(bytecode) - 1)>>,
         bytecode |-> functions[1].code]

\* a constructor that runs the buffer of the last function of the table
NewVMRunsLastFunction(bytecode) ==
    LET functions == [k \in 1..Len(bytecode) |-> VirtualFunction(bytecode[k])]
    IN  [functions |-> functions,
         ip |-> 0,
         stack |-> <<>>,
         callStack |-> <<StackFrame(0)>>,
         bytecode |-> functions[Len(bytecode)].code]

\* new VM(bytecode)
NewVM(bytecode) ==
    LET functions == [k \in 1..Len(bytecode) |-> VirtualFunction(bytecode[k])]
    IN  [functions |-> functions,
         ip |-> 0,
         stack |-> <<>>,
         callStack |-> <<StackFrame(0)>>,
         bytecode |-> functions[1].code]

----------------------------------------------------------------------------
(* new RegExp(exp, flags) *)

\* the code units of the flags d g i m s u v y
RegExpFlagUnits == {100, 103, 105, 109, 115, 117, 118, 121}

\* RegExp flags are valid when each is known, none is repeated and u and v
\* are not both given; otherwise the constructor throws a SyntaxError
FlagsValid(flags) ==
    /\ \A k \in 1..Len(flags) : flags[k] \in RegExpFlagUnits
    /\ \A j, k \in 1..Len(flags) : j # k => flags[j] # flags[k]
    /\ ~ (\E j, k \in 1..Len(flags) : flags[j] = 117 /\ flags[k] = 118)

\* the code units of the pattern syntax characters ^ $ \ . * + ? ( ) [ ] { } |
SyntaxCharacterUnits == {94, 36, 92, 46, 42, 43, 63, 40, 41, 91, 93, 123, 125, 124}

\* the code unit at position p of s (from 1), -1 beyond its ends
CharAt(s, p) == IF p >= 1 /\ p <= Len(s) THEN s[p] ELSE -1

IsDecimalDigit(c) == c \in 48..57
IsOctalDigit(c) == c \in 48..55
IsHexDigit(c) == c \in (48..57) \cup (65..70) \cup (97..102)
HexValue(c) == IF c \in 48..57 THEN c - 48 ELSE IF c \in 65..70 THEN c - 55 ELSE c - 87
IsAsciiLetter(c) == c \in (65..90) \cup (97..122)

\* IdentifierStartChar and IdentifierPartChar among the code units 0..255:
\* $ _ and the letters, with the digits and the middle dot as parts
IsIdentifierStart(c) ==
    c \in (65..90) \cup (97..122) \cup {36, 95, 170, 181, 186}
          \cup (192..214) \cup (216..246) \cup (248..255)
IsIdentifierPart(c) == IsIdentifierStart(c) \/ c \in 48..57 \/ c = 183

\* the first position from p on that holds no decimal digit
RECURSIVE DigitsEnd(_, _)
DigitsEnd(s, p) == IF IsDecimalDigit(CharAt(s, p)) THEN DigitsEnd(s, p + 1) ELSE p

\* the first position from p on that holds no hexadecimal digit
RECURSIVE HexEnd(_, _)
HexEnd(s, p) == IF IsHexDigit(CharAt(s, p)) THEN HexEnd(s, p + 1) ELSE p

\* the number written in hexadecimal at the positions p..q-1, held at 16^6
RECURSIVE HexNumber(_, _, _, _)
HexNumber(s, p, q, acc) ==
    IF p >= q THEN acc
    ELSE HexNumber(s, p + 1, q,
                   IF acc * 16 + HexValue(CharAt(s, p)) > 1114112 THEN 1114112
                   ELSE acc * 16 + HexValue(CharAt(s, p)))

\* a decimal numeral without its leading zeros
RECURSIVE StripZeros(_)
StripZeros(ds) == IF Len(ds) > 0 /\ Head(ds) = 48 THEN StripZeros(Tail(ds)) ELSE ds

\* the order of two numerals of one length
RECURSIVE NumeralGreater(_, _)
NumeralGreater(a, b) ==
    IF Len(a) = 0 THEN FALSE
    ELSE IF Head(a) # Head(b) THEN Head(a) > Head(b)
    ELSE NumeralGreater(Tail(a), Tail(b))

\* the numeral x denotes a greater number than y, both without leading zeros
StrippedGreater(x, y) ==
    IF Len(x) # Len(y) THEN Len(x) > Len(y) ELSE NumeralGreater(x, y)

\* the number a numeral of at most four digits denotes, 10000 for a longer one
RECURSIVE DecimalNumber(_, _)
DecimalNumber(ds, acc) ==
    IF Len(ds) = 0 THEN acc
    ELSE IF acc >= 1000 THEN 10000
    ELSE DecimalNumber(Tail(ds), acc * 10 + (Head(ds) - 48))

\* the parser's state: the next position, whether the text so far is in the
\* grammar (ok), whether every engine decides it so (sure), the capturing
\* groups counted, the group names with the alternatives they stand in, the
\* names and the largest number referenced, the alternatives entered, and
\* whether a quantifier may follow what was parsed last
ParseStart ==
    [pos |-> 1, ok |-> TRUE, sure |-> TRUE, ncap |-> 0, names |-> <<>>,
     refs |-> {}, maxref |-> 0, path |-> <<>>, quant |-> FALSE]

Fail(st) == [st EXCEPT !.ok = FALSE]
Unsure(st) == [st EXCEPT !.sure = FALSE]
Advance(st, n) == [st EXCEPT !.pos = @ + n]

\* the result of an escape: its end and the value it denotes
Escaped(pos, val) == [ok |-> TRUE, pos |-> pos, val |-> val]
NotEscaped(p) == [ok |-> FALSE, pos |-> p, val |-> 0]

\* uHHHH of value lead, followed or not (paired) by the uHHHH of value trail
SurrogateEscape(p, paired, lead, trail) ==
    IF paired /\ lead \in 55296..56319 /\ trail \in 56320..57343
    THEN Escaped(p + 10, 65536 + (lead - 55296) * 1024 + (trail - 56320))
    ELSE Escaped(p + 4, lead)

\* u{H..} of value v, ending before position q
CodePointEscape(p, q, v) == IF v <= 1114111 THEN Escaped(q, v) ELSE NotEscaped(p)

\* RegExpUnicodeEscapeSequence after the u at position p - 1, where h0, h1
\* and h6 are the ends of the hexadecimal digits from p, p + 1 and p + 6 on
UnicodeEscapeOf(s, p, U, h0, h1, h6) ==
    IF h0 >= p + 4
    THEN SurrogateEscape(p, U /\ CharAt(s, p + 4) = 92 /\ CharAt(s, p + 5) = 117
                               /\ h6 >= p + 10,
                         HexNumber(s, p, p + 4, 0), HexNumber(s, p + 6, p + 10, 0))
    ELSE IF U /\ CharAt(s, p) = 123 /\ h1 > p + 1 /\ CharAt(s, h1) = 125
    THEN CodePointEscape(p, h1 + 1, HexNumber(s, p + 1, h1, 0))
    ELSE NotEscaped(p)

\* RegExpUnicodeEscapeSequence after the u at position p - 1: uHHHH, a lead
\* and a trail surrogate written so in Unicode mode, u{H..} in Unicode mode
UnicodeEscape(s, p, U) ==
    UnicodeEscapeOf(s, p, U, HexEnd(s, p), HexEnd(s, p + 1), HexEnd(s, p + 6))

\* the value of a ControlEscape f n r t v
ControlEscapeValue(e) ==
    CASE e = 102 -> 12 [] e = 110 -> 10 [] e = 114 -> 13 [] e = 116 -> 9 [] OTHER -> 11

\* CharacterEscape[+UnicodeMode] at the backslash at position p: f n r t v,
\* c and a letter, 0 before no digit, xHH, a unicode escape, a syntax
\* character or /
CharacterEscapeUnicode(s, p) ==
    LET e == CharAt(s, p + 1)
    IN  IF e \in {102, 110, 114, 116, 118} THEN Escaped(p + 2, ControlEscapeValue(e))
        ELSE IF e = 99
        THEN IF IsAsciiLetter(CharAt(s, p + 2))
             THEN Escaped(p + 3, CharAt(s, p + 2) % 32)
             ELSE NotEscaped(p)
        ELSE IF e = 48
        THEN IF IsDecimalDigit(CharAt(s, p + 2)) THEN NotEscaped(p)
             ELSE Escaped(p + 2, 0)
        ELSE IF e = 120
        THEN IF IsHexDigit(CharAt(s, p + 2)) /\ IsHexDigit(CharAt(s, p + 3))
             THEN Escaped(p + 4, HexNumber(s, p + 2, p + 4, 0))
             ELSE NotEscaped(p)
        ELSE IF e = 117 THEN UnicodeEscape(s, p + 2, TRUE)
        ELSE IF e \in SyntaxCharacterUnits \cup {47} THEN Escaped(p + 2, e)
        ELSE NotEscaped(p)

\* a legacy octal escape at the backslash at position p: up to three octal
\* digits denoting at most 255
LegacyOctal(s, p) ==
    LET d1 == CharAt(s, p + 1)
        d2 == CharAt(s, p + 2)
        d3 == CharAt(s, p + 3)
    IN  IF ~ IsOctalDigit(d2)
        THEN [pos |-> p + 2, val |-> d1 - 48]
        ELSE IF d1 <= 51 /\ IsOctalDigit(d3)
        THEN [pos |-> p + 4, val |-> (d1 - 48) * 64 + (d2 - 48) * 8 + (d3 - 48)]
        ELSE [pos |-> p + 3, val |-> (d1 - 48) * 8 + (d2 - 48)]

\* the characters of a property name or value: letters, digits and _
IsPropertyCharacter(c) == IsAsciiLetter(c) \/ IsDecimalDigit(c) \/ c = 95

RECURSIVE PropertyEnd(_, _)
PropertyEnd(s, p) == IF IsPropertyCharacter(CharAt(s, p)) THEN PropertyEnd(s, p + 1) ELSE p

\* the values of General_Category and their aliases, as code units
GeneralCategoryValues ==
    { <<67>>,  \* C
      <<79, 116, 104, 101, 114>>,  \* Other
      <<67, 99>>,  \* Cc
      <<67, 111, 110, 116, 114, 111, 108>>,  \* Control
      <<99, 110, 116, 114, 108>>,  \* cntrl
      <<67, 102>>,  \* Cf
      <<70, 111, 114, 109, 97, 116>>,  \* Format
      <<67, 110>>,  \* Cn
      <<85, 110, 97, 115, 115, 105, 103, 110, 101, 100>>,  \* Unassigned
      <<67, 111>>,  \* Co
      <<80, 114, 105, 118, 97, 116, 101, 95, 85, 115, 101>>,  \* Private_Use
      <<67, 115>>,  \* Cs
      <<83, 117, 114, 114, 111, 103, 97, 116, 101>>,  \* Surrogate
      <<76>>,  \* L
      <<76, 101, 116, 116, 101, 114>>,  \* Letter
      <<76, 67>>,  \* LC
      <<67, 97, 115, 101, 100, 95, 76, 101, 116, 116, 101, 114>>,  \* Cased_Letter
      <<76, 108>>,  \* Ll
      <<76, 111, 119, 101, 114, 99, 97, 115, 101, 95, 76, 101, 116, 116, 101, 114>>,  \* Lowercase_Letter
      <<76, 109>>,  \* Lm
      <<77, 111, 100, 105, 102, 105, 101, 114, 95, 76, 101, 116, 116, 101, 114>>,  \* Modifier_Letter
      <<76, 111>>,  \* Lo
      <<79, 116, 104, 101, 114, 95, 76, 101, 116, 116, 101, 114>>,  \* Other_Letter
      <<76, 116>>,  \* Lt
      <<84, 105, 116, 108, 101, 99, 97, 115, 101, 95, 76, 101, 116, 116, 101, 114>>,  \* Titlecase_Letter
      <<76, 117>>,  \* Lu
      <<85, 112, 112, 101, 114, 99, 97, 115, 101, 95, 76, 101, 116, 116, 101, 114>>,  \* Uppercase_Letter
      <<77>>,  \* M
      <<77, 97, 114, 107>>,  \* Mark
      <<67, 111, 109, 98, 105, 110, 105, 110, 103, 95, 77, 97, 114, 107>>,  \* Combining_Mark
      <<77, 99>>,  \* Mc
      <<83, 112, 97, 99, 105, 110, 103, 95, 77, 97, 114, 107>>,  \* Spacing_Mark
      <<77, 101>>,  \* Me
      <<69, 110, 99, 108, 111, 115, 105, 110, 103, 95, 77, 97, 114, 107>>,  \* Enclosing_Mark
      <<77, 110>>,  \* Mn
      <<78, 111, 110, 115, 112, 97, 99, 105, 110, 103, 95, 77, 97, 114, 107>>,  \* Nonspacing_Mark
      <<78>>,  \* N
      <<78, 117, 109, 98, 101, 114>>,  \* Number
      <<78, 100>>,  \* Nd
      <<68, 101, 99, 105, 109, 97, 108, 95, 78, 117, 109, 98, 101, 114>>,  \* Decimal_Number
      <<100, 105, 103, 105, 116>>,  \* digit
      <<78, 108>>,  \* Nl
      <<76, 101, 116, 116, 101, 114, 95, 78, 117, 109, 98, 101, 114>>,  \* Letter_Number
      <<78, 111>>,  \* No
      <<79, 116, 104, 101, 114, 95, 78, 117, 109, 98, 101, 114>>,  \* Other_Number
      <<80>>,  \* P
      <<80, 117, 110, 99, 116, 117, 97, 116, 105, 111, 110>>,  \* Punctuation
      <<112, 117, 110, 99, 116>>,  \* punct
      <<80, 99>>,  \* Pc
      <<67, 111, 110, 110, 101, 99, 116, 111, 114, 95, 80, 117, 110, 99, 116, 117, 97, 116, 105, 111, 110>>,  \* Connector_Punctuation
      <<80, 100>>,  \* Pd
      <<68, 97, 115, 104, 95, 80, 117, 110, 99, 116, 117, 97, 116, 105, 111, 110>>,  \* Dash_Punctuation
      <<80, 101>>,  \* Pe
      <<67, 108, 111, 115, 101, 95, 80, 117, 110, 99, 116, 117, 97, 116, 105, 111, 110>>,  \* Close_Punctuation
      <<80, 102>>,  \* Pf
      <<70, 105, 110, 97, 108, 95, 80, 117, 110, 99, 116, 117, 97, 116, 105, 111, 110>>,  \* Final_Punctuation
      <<80, 105>>,  \* Pi
      <<73, 110, 105, 116, 105, 97, 108, 95, 80, 117, 110, 99, 116, 117, 97, 116, 105, 111, 110>>,  \* Initial_Punctuation
      <<80, 111>>,  \* Po
      <<79, 116, 104, 101, 114, 95, 80, 117, 110, 99, 116, 117, 97, 116, 105, 111, 110>>,  \* Other_Punctuation
      <<80, 115>>,  \* Ps
      <<79, 112, 101, 110, 95, 80, 117, 110, 99, 116, 117, 97, 116, 105, 111, 110>>,  \* Open_Punctuation
      <<83>>,  \* S
      <<83, 121, 109, 98, 111, 108>>,  \* Symbol
      <<83, 99>>,  \* Sc
      <<67, 117, 114, 114, 101, 110, 99, 121, 95, 83, 121, 109, 98, 111, 108>>,  \* Currency_Symbol
      <<83, 107>>,  \* Sk
      <<77, 111, 100, 105, 102, 105, 101, 114, 95, 83, 121, 109, 98, 111, 108>>,  \* Modifier_Symbol
      <<83, 109>>,  \* Sm
      <<77, 97, 116, 104, 95, 83, 121, 109, 98, 111, 108>>,  \* Math_Symbol
      <<83, 111>>,  \* So
      <<79, 116, 104, 101, 114, 95, 83, 121, 109, 98, 111, 108>>,  \* Other_Symbol
      <<90>>,  \* Z
      <<83, 101, 112, 97, 114, 97, 116, 111, 114>>,  \* Separator
      <<90, 108>>,  \* Zl
      <<76, 105, 110, 101, 95, 83, 101, 112, 97, 114, 97, 116, 111, 114>>,  \* Line_Separator
      <<90, 112>>,  \* Zp
      <<80, 97, 114, 97, 103, 114, 97, 112, 104, 95, 83, 101, 112, 97, 114, 97, 116, 111, 114>>,  \* Paragraph_Separator
      <<90, 115>>,  \* Zs
      <<83, 112, 97, 99, 101, 95, 83, 101, 112, 97, 114, 97, 116, 111, 114>> }  \* Space_Separator

\* the binary Unicode properties of \p{..} and their aliases
BinaryPropertyNames ==
    { <<65, 83, 67, 73, 73>>,  \* ASCII
      <<65, 83, 67, 73, 73, 95, 72, 101, 120, 95, 68, 105, 103, 105, 116>>,  \* ASCII_Hex_Digit
      <<65, 72, 101, 120>>,  \* AHex
      <<65, 108, 112, 104, 97, 98, 101, 116, 105, 99>>,  \* Alphabetic
      <<65, 108, 112, 104, 97>>,  \* Alpha
      <<65, 110, 121>>,  \* Any
      <<65, 115, 115, 105, 103, 110, 101, 100>>,  \* Assigned
      <<66, 105, 100, 105, 95, 67, 111, 110, 116, 114, 111, 108>>,  \* Bidi_Control
      <<66, 105, 100, 105, 95, 67>>,  \* Bidi_C
      <<66, 105, 100, 105, 95, 77, 105, 114, 114, 111, 114, 101, 100>>,  \* Bidi_Mirrored
      <<66, 105, 100, 105, 95, 77>>,  \* Bidi_M
      <<67, 97, 115, 101, 95, 73, 103, 110, 111, 114, 97, 98, 108, 101>>,  \* Case_Ignorable
      <<67, 73>>,  \* CI
      <<67, 97, 115, 101, 100>>,  \* Cased
      <<67, 104, 97, 110, 103, 101, 115, 95, 87, 104, 101, 110, 95, 67, 97, 115, 101, 109, 97, 112, 112, 101, 100>>,  \* Changes_When_Casemapped
      <<67, 87, 67, 77>>,  \* CWCM
      <<67, 104, 97, 110, 103, 101, 115, 95, 87, 104, 101, 110, 95, 67, 97, 115, 101, 102, 111, 108, 100, 101, 100>>,  \* Changes_When_Casefolded
      <<67, 87, 67, 70>>,  \* CWCF
      <<67, 104, 97, 110, 103, 101, 115, 95, 87, 104, 101, 110, 95, 76, 111, 119, 101, 114, 99, 97, 115, 101, 100>>,  \* Changes_When_Lowercased
      <<67, 87, 76>>,  \* CWL
      <<67, 104, 97, 110, 103, 101, 115, 95, 87, 104, 101, 110, 95, 78, 70, 75, 67, 95, 67, 97, 115, 101, 102, 111, 108, 100, 101, 100>>,  \* Changes_When_NFKC_Casefolded
      <<67, 87, 75, 67, 70>>,  \* CWKCF
      <<67, 104, 97, 110, 103, 101, 115, 95, 87, 104, 101, 110, 95, 84, 105, 116, 108, 101, 99, 97, 115, 101, 100>>,  \* Changes_When_Titlecased
      <<67, 87, 84>>,  \* CWT
      <<67, 104, 97, 110, 103, 101, 115, 95, 87, 104, 101, 110, 95, 85, 112, 112, 101, 114, 99, 97, 115, 101, 100>>,  \* Changes_When_Uppercased
      <<67, 87, 85>>,  \* CWU
      <<68, 97, 115, 104>>,  \* Dash
      <<68, 101, 102, 97, 117, 108, 116, 95, 73, 103, 110, 111, 114, 97, 98, 108, 101, 95, 67, 111, 100, 101, 95, 80, 111, 105, 110, 116>>,  \* Default_Ignorable_Code_Point
      <<68, 73>>,  \* DI
      <<68, 101, 112, 114, 101, 99, 97, 116, 101, 100>>,  \* Deprecated
      <<68, 101, 112>>,  \* Dep
      <<68, 105, 97, 99, 114, 105, 116, 105, 99>>,  \* Diacritic
      <<68, 105, 97>>,  \* Dia
      <<69, 109, 111, 106, 105>>,  \* Emoji
      <<69, 109, 111, 106, 105, 95, 67, 111, 109, 112, 111, 110, 101, 110, 116>>,  \* Emoji_Component
      <<69, 67, 111, 109, 112>>,  \* EComp
      <<69, 109, 111, 106, 105, 95, 77, 111, 100, 105, 102, 105, 101, 114>>,  \* Emoji_Modifier
      <<69, 77, 111, 100>>,  \* EMod
      <<69, 109, 111, 106, 105, 95, 77, 111, 100, 105, 102, 105, 101, 114, 95, 66, 97, 115, 101>>,  \* Emoji_Modifier_Base
      <<69, 66, 97, 115, 101>>,  \* EBase
      <<69, 109, 111, 106, 105, 95, 80, 114, 101, 115, 101, 110, 116, 97, 116, 105, 111, 110>>,  \* Emoji_Presentation
      <<69, 80, 114, 101, 115>>,  \* EPres
      <<69, 120, 116, 101, 110, 100, 101, 100, 95, 80, 105, 99, 116, 111, 103, 114, 97, 112, 104, 105, 99>>,  \* Extended_Pictographic
      <<69, 120, 116, 80, 105, 99, 116>>,  \* ExtPict
      <<69, 120, 116, 101, 110, 100, 101, 114>>,  \* Extender
      <<69, 120, 116>>,  \* Ext
      <<71, 114, 97, 112, 104, 101, 109, 101, 95, 66, 97, 115, 101>>,  \* Grapheme_Base
      <<71, 114, 95, 66, 97, 115, 101>>,  \* Gr_Base
      <<71, 114, 97, 112, 104, 101, 109, 101, 95, 69, 120, 116, 101, 110, 100>>,  \* Grapheme_Extend
      <<71, 114, 95, 69, 120, 116>>,  \* Gr_Ext
      <<72, 101, 120, 95, 68, 105, 103, 105, 116>>,  \* Hex_Digit
      <<72, 101, 120>>,  \* Hex
      <<73, 68, 83, 95, 66, 105, 110, 97, 114, 121, 95, 79, 112, 101, 114, 97, 116, 111, 114>>,  \* IDS_Binary_Operator
      <<73, 68, 83, 66>>,  \* IDSB
      <<73, 68, 83, 95, 84, 114, 105, 110, 97, 114, 121, 95, 79, 112, 101, 114, 97, 116, 111, 114>>,  \* IDS_Trinary_Operator
      <<73, 68, 83, 84>>,  \* IDST
      <<73, 68, 95, 67, 111, 110, 116, 105, 110, 117, 101>>,  \* ID_Continue
      <<73, 68, 67>>,  \* IDC
      <<73, 68, 95, 83, 116, 97, 114, 116>>,  \* ID_Start
      <<73, 68, 83>>,  \* IDS
      <<73, 100, 101, 111, 103, 114, 97, 112, 104, 105, 99>>,  \* Ideographic
      <<73, 100, 101, 111>>,  \* Ideo
      <<74, 111, 105, 110, 95, 67, 111, 110, 116, 114, 111, 108>>,  \* Join_Control
      <<74, 111, 105, 110, 95, 67>>,  \* Join_C
      <<76, 111, 103, 105, 99, 97, 108, 95, 79, 114, 100, 101, 114, 95, 69, 120, 99, 101, 112, 116, 105, 111, 110>>,  \* Logical_Order_Exception
      <<76, 79, 69>>,  \* LOE
      <<76, 111, 119, 101, 114, 99, 97, 115, 101>>,  \* Lowercase
      <<76, 111, 119, 101, 114>>,  \* Lower
      <<77, 97, 116, 104>>,  \* Math
      <<78, 111, 110, 99, 104, 97, 114, 97, 99, 116, 101, 114, 95, 67, 111, 100, 101, 95, 80, 111, 105, 110, 116>>,  \* Noncharacter_Code_Point
      <<78, 67, 104, 97, 114>>,  \* NChar
      <<80, 97, 116, 116, 101, 114, 110, 95, 83, 121, 110, 116, 97, 120>>,  \* Pattern_Syntax
      <<80, 97, 116, 95, 83, 121, 110>>,  \* Pat_Syn
      <<80, 97, 116, 116, 101, 114, 110, 95, 87, 104, 105, 116, 101, 95, 83, 112, 97, 99, 101>>,  \* Pattern_White_Space
      <<80, 97, 116, 95, 87, 83>>,  \* Pat_WS
      <<81, 117, 111, 116, 97, 116, 105, 111, 110, 95, 77, 97, 114, 107>>,  \* Quotation_Mark
      <<81, 77, 97, 114, 107>>,  \* QMark
      <<82, 97, 100, 105, 99, 97, 108>>,  \* Radical
      <<82, 101, 103, 105, 111, 110, 97, 108, 95, 73, 110, 100, 105, 99, 97, 116, 111, 114>>,  \* Regional_Indicator
      <<82, 73>>,  \* RI
      <<83, 101, 110, 116, 101, 110, 99, 101, 95, 84, 101, 114, 109, 105, 110, 97, 108>>,  \* Sentence_Terminal
      <<83, 84, 101, 114, 109>>,  \* STerm
      <<83, 111, 102, 116, 95, 68, 111, 116, 116, 101, 100>>,  \* Soft_Dotted
      <<83, 68>>,  \* SD
      <<84, 101, 114, 109, 105, 110, 97, 108, 95, 80, 117, 110, 99, 116, 117, 97, 116, 105, 111, 110>>,  \* Terminal_Punctuation
      <<84, 101, 114, 109>>,  \* Term
      <<85, 110, 105, 102, 105, 101, 100, 95, 73, 100, 101, 111, 103, 114, 97, 112, 104>>,  \* Unified_Ideograph
      <<85, 73, 100, 101, 111>>,  \* UIdeo
      <<85, 112, 112, 101, 114, 99, 97, 115, 101>>,  \* Uppercase
      <<85, 112, 112, 101, 114>>,  \* Upper
      <<86, 97, 114, 105, 97, 116, 105, 111, 110, 95, 83, 101, 108, 101, 99, 116, 111, 114>>,  \* Variation_Selector
      <<86, 83>>,  \* VS
      <<87, 104, 105, 116, 101, 95, 83, 112, 97, 99, 101>>,  \* White_Space
      <<87, 83, 112, 97, 99, 101>>,  \* WSpace
      <<115, 112, 97, 99, 101>>,  \* space
      <<88, 73, 68, 95, 67, 111, 110, 116, 105, 110, 117, 101>>,  \* XID_Continue
      <<88, 73, 68, 67>>,  \* XIDC
      <<88, 73, 68, 95, 83, 116, 97, 114, 116>>,  \* XID_Start
      <<88, 73, 68, 83>> }  \* XIDS

\* the binary Unicode properties of strings, of the v flag
StringPropertyNames ==
    { <<66, 97, 115, 105, 99, 95, 69, 109, 111, 106, 105>>,  \* Basic_Emoji
      <<69, 109, 111, 106, 105, 95, 75, 101, 121, 99, 97, 112, 95, 83, 101, 113, 117, 101, 110, 99, 101>>,  \* Emoji_Keycap_Sequence
      <<82, 71, 73, 95, 69, 109, 111, 106, 105, 95, 77, 111, 100, 105, 102, 105, 101, 114, 95, 83, 101, 113, 117, 101, 110, 99, 101>>,  \* RGI_Emoji_Modifier_Sequence
      <<82, 71, 73, 95, 69, 109, 111, 106, 105, 95, 70, 108, 97, 103, 95, 83, 101, 113, 117, 101, 110, 99, 101>>,  \* RGI_Emoji_Flag_Sequence
      <<82, 71, 73, 95, 69, 109, 111, 106, 105, 95, 84, 97, 103, 95, 83, 101, 113, 117, 101, 110, 99, 101>>,  \* RGI_Emoji_Tag_Sequence
      <<82, 71, 73, 95, 69, 109, 111, 106, 105, 95, 90, 87, 74, 95, 83, 101, 113, 117, 101, 110, 99, 101>>,  \* RGI_Emoji_ZWJ_Sequence
      <<82, 71, 73, 95, 69, 109, 111, 106, 105>> }  \* RGI_Emoji

\* General_Category and gc
GeneralCategoryNames ==
    { <<71, 101, 110, 101, 114, 97, 108, 95, 67, 97, 116, 101, 103, 111, 114, 121>>,  \* General_Category
      <<103, 99>> }  \* gc

\* Script, Script_Extensions and their aliases
ScriptNames ==
    { <<83, 99, 114, 105, 112, 116>>,  \* Script
      <<115, 99>>,  \* sc
      <<83, 99, 114, 105, 112, 116, 95, 69, 120, 116, 101, 110, 115, 105, 111, 110, 115>>,  \* Script_Extensions
      <<115, 99, 120>> }  \* scx


\* the result of a property escape: its end, and whether it may match strings
Property(ok, sure, pos, strs) == [ok |-> ok, sure |-> sure, pos |-> pos, strs |-> strs]

\* \p{x} or \p{x=y} at the backslash at position p, where a and b are the
\* ends of x and of y: a value of General_Category, a binary property, or
\* with the v flag and p a property of strings; the scripts are those of the
\* engine's version of Unicode, which this model does not hold (sure FALSE)
PropertyEscapeOf(s, p, V, a, b, x, y) ==
    IF CharAt(s, p + 2) # 123 THEN Property(FALSE, TRUE, p, FALSE)
    ELSE IF CharAt(s, a) = 125
    THEN IF x \in GeneralCategoryValues \cup BinaryPropertyNames
         THEN Property(TRUE, TRUE, a + 1, FALSE)
         ELSE IF V /\ CharAt(s, p + 1) = 112 /\ x \in StringPropertyNames
         THEN Property(TRUE, TRUE, a + 1, TRUE)
         ELSE Property(FALSE, TRUE, p, FALSE)
    ELSE IF CharAt(s, a) = 61 /\ CharAt(s, b) = 125
    THEN IF x \in GeneralCategoryNames /\ y \in GeneralCategoryValues
         THEN Property(TRUE, TRUE, b + 1, FALSE)
         ELSE IF x \in ScriptNames /\ Len(y) > 0
         THEN Property(TRUE, FALSE, b + 1, FALSE)
         ELSE Property(FALSE, TRUE, p, FALSE)
    ELSE Property(FALSE, TRUE, p, FALSE)

\* the end of y in \p{x=y}, x ending at position a
PropertyValueOf(s, p, V, a, b) ==
    PropertyEscapeOf(s, p, V, a, b, SubSeq(s, p + 3, a - 1), SubSeq(s, a + 1, b - 1))

PropertyNameOf(s, p, V, a) == PropertyValueOf(s, p, V, a, PropertyEnd(s, a + 1))

\* \p{Name=Value} or \p{NameOrValue} at the backslash at position p, V
\* telling the v flag
PropertyEscape(s, p, V) == PropertyNameOf(s, p, V, PropertyEnd(s, p + 3))

\* the escapes d D s S w W, which denote classes
ClassEscapeUnits == {100, 68, 115, 83, 119, 87}

\* a ClassAtom: its end, its character value, or that it denotes a class
ClassCharacter(pos, val) ==
    [ok |-> TRUE, sure |-> TRUE, pos |-> pos, val |-> val, cls |-> FALSE]
ClassOfCharacters(pos, sure) ==
    [ok |-> TRUE, sure |-> sure, pos |-> pos, val |-> 0, cls |-> TRUE]
NoClassAtom(p) == [ok |-> FALSE, sure |-> TRUE, pos |-> p, val |-> 0, cls |-> FALSE]

\* ClassAtom at position p of a class without the v flag, where e and n are
\* the two code units after it and ce, ue, lo and pe the escapes read there
ClassAtomOf(s, m, p, e, n, ce, ue, lo, pe) ==
    IF CharAt(s, p) # 92 THEN ClassCharacter(p + 1, CharAt(s, p))
    ELSE IF e = -1 THEN NoClassAtom(p)
    ELSE IF e \in ClassEscapeUnits THEN ClassOfCharacters(p + 2, TRUE)
    ELSE IF e = 98 THEN ClassCharacter(p + 2, 8)
    ELSE IF m.U
    THEN IF e = 45 THEN ClassCharacter(p + 2, 45)
         ELSE IF e \in {112, 80}
         THEN IF pe.ok THEN ClassOfCharacters(pe.pos, pe.sure) ELSE NoClassAtom(p)
         ELSE IF ce.ok THEN ClassCharacter(ce.pos, ce.val) ELSE NoClassAtom(p)
    ELSE IF e = 99
    THEN IF IsAsciiLetter(n) \/ IsDecimalDigit(n) \/ n = 95
         THEN ClassCharacter(p + 3, n % 32)
         ELSE ClassCharacter(p + 1, 92)
    ELSE IF e = 107 /\ m.N THEN NoClassAtom(p)
    ELSE IF IsOctalDigit(e) THEN ClassCharacter(lo.pos, lo.val)
    ELSE IF e = 120 /\ IsHexDigit(n) /\ IsHexDigit(CharAt(s, p + 3))
    THEN ClassCharacter(p + 4, HexNumber(s, p + 2, p + 4, 0))
    ELSE IF e = 117 /\ ue.ok THEN ClassCharacter(ue.pos, ue.val)
    ELSE IF e \in {102, 110, 114, 116, 118} THEN ClassCharacter(p + 2, ControlEscapeValue(e))
    ELSE ClassCharacter(p + 2, e)

\* ClassAtom at position p of a class without the v flag
ClassAtom(s, m, p) ==
    ClassAtomOf(s, m, p, CharAt(s, p + 1), CharAt(s, p + 2),
                CharacterEscapeUnicode(s, p), UnicodeEscape(s, p + 2, FALSE),
                LegacyOctal(s, p), PropertyEscape(s, p, FALSE))

RECURSIVE ClassRanges(_, _, _)

\* the class goes on at position q after a ClassAtom or a range
ClassRangesAfter(s, m, st, q, sure) ==
    ClassRanges(s, m, [st EXCEPT !.pos = q, !.sure = @ /\ sure])

\* the range from the ClassAtom a to the ClassAtom b: two characters out of
\* order are an error, and so is, in Unicode mode, a class at an end
ClassRange(s, m, st, a, b) ==
    IF ~ b.ok THEN [ok |-> FALSE, pos |-> a.pos, sure |-> TRUE]
    ELSE IF a.cls \/ b.cls
    THEN [ok |-> ~ m.U, pos |-> b.pos, sure |-> a.sure /\ b.sure]
    ELSE [ok |-> a.val <= b.val, pos |-> b.pos, sure |-> a.sure /\ b.sure]

\* what the ClassAtom a begins: a range when a - and an atom follow it
ClassRangesFrom(s, m, st, a, r) ==
    IF ~ a.ok THEN Fail(st)
    ELSE IF CharAt(s, a.pos) = 45 /\ CharAt(s, a.pos + 1) \notin {93, -1}
    THEN IF r.ok THEN ClassRangesAfter(s, m, st, r.pos, r.sure) ELSE Fail(st)
    ELSE ClassRangesAfter(s, m, st, a.pos, a.sure)

ClassRangesOf(s, m, st, a) ==
    ClassRangesFrom(s, m, st, a, ClassRange(s, m, st, a, ClassAtom(s, m, a.pos + 1)))

\* ClassRanges up to the closing bracket, from st.pos on
ClassRanges(s, m, st) ==
    IF st.pos > Len(s) THEN Fail(st)
    ELSE IF s[st.pos] = 93 THEN Advance(st, 1)
    ELSE ClassRangesOf(s, m, st, ClassAtom(s, m, st.pos))

\* the characters of the class syntax under the v flag
ClassSetSyntaxUnits == {40, 41, 91, 93, 123, 125, 47, 45, 92, 124}
ClassSetReservedPunctuatorUnits ==
    {38, 45, 33, 35, 37, 44, 58, 59, 60, 61, 62, 64, 96, 126}
ClassSetDoublePunctuatorUnits ==
    {38, 33, 35, 36, 37, 42, 43, 44, 46, 58, 59, 60, 61, 62, 63, 64, 94, 96, 126}

\* ClassSetCharacter at position p
ClassSetCharacter(s, p) ==
    LET c == CharAt(s, p)
        e == CharAt(s, p + 1)
    IN  IF c = -1 THEN NotEscaped(p)
        ELSE IF c = 92
        THEN IF e = 98 THEN Escaped(p + 2, 8)
             ELSE IF e \in ClassSetReservedPunctuatorUnits THEN Escaped(p + 2, e)
             ELSE CharacterEscapeUnicode(s, p)
        ELSE IF c \in ClassSetSyntaxUnits THEN NotEscaped(p)
        ELSE IF c \in ClassSetDoublePunctuatorUnits /\ e = c THEN NotEscaped(p)
        ELSE Escaped(p + 1, c)

\* the result of a part of a class under the v flag: its end, whether it is
\* one character and which, and whether it may contain strings
SetResult(ok, sure, pos, strs) ==
    [ok |-> ok, sure |-> sure, pos |-> pos, kind |-> "set", val |-> 0, strs |-> strs]
SetCharacter(ch) ==
    [ok |-> ch.ok, sure |-> TRUE, pos |-> ch.pos, kind |-> "char", val |-> ch.val,
     strs |-> FALSE]

SetOfProperty(pe) == SetResult(pe.ok, pe.sure, pe.pos, pe.strs)

RECURSIVE ClassStrings(_, _, _, _)

ClassStringsOf(s, p, len, strs, ch) ==
    IF CharAt(s, p) = 125 THEN SetResult(TRUE, TRUE, p + 1, strs \/ len # 1)
    ELSE IF CharAt(s, p) = 124 THEN ClassStrings(s, p + 1, 0, strs \/ len # 1)
    ELSE IF ch.ok THEN ClassStrings(s, ch.pos, len + 1, strs)
    ELSE SetResult(FALSE, TRUE, p, FALSE)

\* the strings of \q{..} from position p on, len characters into the
\* current one; strs tells that a string is not one character long
ClassStrings(s, p, len, strs) ==
    ClassStringsOf(s, p, len, strs, ClassSetCharacter(s, p))

RECURSIVE ClassSetOperand(_, _)
RECURSIVE ClassUnion(_, _, _, _)
RECURSIVE ClassIntersection(_, _, _, _)
RECURSIVE ClassSubtraction(_, _, _, _)
RECURSIVE ClassSet(_, _)

\* ClassSetOperand at position p: a nested class, a class escape, \q{..} or
\* a character
ClassSetOperand(s, p) ==
    LET c == CharAt(s, p)
        e == CharAt(s, p + 1)
    IN  IF c = 91 THEN ClassSet(s, p)
        ELSE IF c = 92 /\ e \in ClassEscapeUnits THEN SetResult(TRUE, TRUE, p + 2, FALSE)
        ELSE IF c = 92 /\ e \in {112, 80} THEN SetOfProperty(PropertyEscape(s, p, TRUE))
        ELSE IF c = 92 /\ e = 113 /\ CharAt(s, p + 2) = 123
        THEN ClassStrings(s, p + 3, 0, FALSE)
        ELSE SetCharacter(ClassSetCharacter(s, p))

\* the range from the character o to the ClassSetCharacter hi
ClassSetRange(s, p, sure, strs, o, hi) ==
    IF hi.ok /\ o.val <= hi.val THEN ClassUnion(s, hi.pos, sure, strs)
    ELSE SetResult(FALSE, sure, p, strs)

ClassUnionOf(s, p, sure, strs, o) ==
    IF ~ o.ok THEN SetResult(FALSE, sure, p, strs)
    ELSE IF o.kind = "char" /\ CharAt(s, o.pos) = 45
    THEN ClassSetRange(s, p, sure, strs, o, ClassSetCharacter(s, o.pos + 1))
    ELSE ClassUnion(s, o.pos, sure /\ o.sure, strs \/ o.strs)

\* ClassUnion from position p up to the closing bracket
ClassUnion(s, p, sure, strs) ==
    IF CharAt(s, p) = -1 THEN SetResult(FALSE, sure, p, strs)
    ELSE IF CharAt(s, p) = 93 THEN SetResult(TRUE, sure, p, strs)
    ELSE ClassUnionOf(s, p, sure, strs, ClassSetOperand(s, p))

ClassIntersectionOf(s, p, sure, strs, o) ==
    IF CharAt(s, p + 2) = 38 \/ ~ o.ok THEN SetResult(FALSE, sure, p, strs)
    ELSE IF CharAt(s, o.pos) = 93
    THEN SetResult(TRUE, sure /\ o.sure, o.pos, strs /\ o.strs)
    ELSE IF CharAt(s, o.pos) = 38 /\ CharAt(s, o.pos + 1) = 38
    THEN ClassIntersection(s, o.pos, sure /\ o.sure, strs /\ o.strs)
    ELSE SetResult(FALSE, sure, p, strs)

\* ClassIntersection from the && at position p on
ClassIntersection(s, p, sure, strs) ==
    ClassIntersectionOf(s, p, sure, strs, ClassSetOperand(s, p + 2))

ClassSubtractionOf(s, p, sure, strs, o) ==
    IF ~ o.ok THEN SetResult(FALSE, sure, p, strs)
    ELSE IF CharAt(s, o.pos) = 93 THEN SetResult(TRUE, sure /\ o.sure, o.pos, strs)
    ELSE IF CharAt(s, o.pos) = 45 /\ CharAt(s, o.pos + 1) = 45
    THEN ClassSubtraction(s, o.pos, sure /\ o.sure, strs)
    ELSE SetResult(FALSE, sure, p, strs)

\* ClassSubtraction from the -- at position p on
ClassSubtraction(s, p, sure, strs) ==
    ClassSubtractionOf(s, p, sure, strs, ClassSetOperand(s, p + 2))

\* the contents of a class under the v flag from position q on, o being
\* their first operand: an intersection, a subtraction or a union
ClassContents(s, q, o) ==
    IF CharAt(s, q) = 93 THEN SetResult(TRUE, TRUE, q, FALSE)
    ELSE IF ~ o.ok THEN SetResult(FALSE, TRUE, q, FALSE)
    ELSE IF CharAt(s, o.pos) = 38 /\ CharAt(s, o.pos + 1) = 38
    THEN ClassIntersection(s, o.pos, o.sure, o.strs)
    ELSE IF CharAt(s, o.pos) = 45 /\ CharAt(s, o.pos + 1) = 45
    THEN ClassSubtraction(s, o.pos, o.sure, o.strs)
    ELSE ClassUnion(s, q, TRUE, FALSE)

\* the closing bracket after the contents c; a negated class may contain no
\* strings
ClassSetEnd(s, p, neg, c) ==
    IF c.ok /\ CharAt(s, c.pos) = 93 /\ ~ (neg /\ c.strs)
    THEN SetResult(TRUE, c.sure, c.pos + 1, c.strs /\ ~ neg)
    ELSE SetResult(FALSE, c.sure, p, FALSE)

ClassSetFrom(s, p, neg, q) ==
    ClassSetEnd(s, p, neg, ClassContents(s, q, ClassSetOperand(s, q)))

\* a class under the v flag at the bracket at position p
ClassSet(s, p) ==
    ClassSetFrom(s, p, CharAt(s, p + 1) = 94, IF CharAt(s, p + 1) = 94 THEN p + 2 ELSE p + 1)

\* the class c under the v flag taken into the parser's state
WithClassSet(st, c) ==
    IF c.ok THEN [st EXCEPT !.pos = c.pos, !.sure = @ /\ c.sure] ELSE Fail(st)

\* CharacterClass at the bracket at st.pos
CharacterClass(s, m, st) ==
    IF m.V THEN WithClassSet(st, ClassSet(s, st.pos))
    ELSE ClassRanges(s, m, [st EXCEPT !.pos = IF CharAt(s, @ + 1) = 94 THEN @ + 2 ELSE @ + 1])

\* a name: its end and its code points
Named(ok, sure, pos, name) == [ok |-> ok, sure |-> sure, pos |-> pos, name |-> name]

\* v can stand at the place of a name that has the code points name so far
FitsName(name, v) == IF Len(name) = 0 THEN IsIdentifierStart(v) ELSE IsIdentifierPart(v)

RECURSIVE IdentifierName(_, _, _, _)

\* an escaped code point above 255 is one whose class this model does not
\* hold (sure is FALSE); the escape is converted before the code point is
\* looked at, so that an escaped > after the first code point of the name
\* ends the name as a > does, and the pattern goes on after the escape
IdentifierNameOf(s, p, name, sure, c, u) ==
    IF c = 62 THEN Named(Len(name) > 0, sure, p + 1, name)
    ELSE IF c = 92
    THEN IF CharAt(s, p + 1) = 117 /\ u.ok /\ u.val = 62 /\ Len(name) > 0
         THEN Named(TRUE, sure, u.pos, name)
         ELSE IF CharAt(s, p + 1) = 117 /\ u.ok /\ (u.val > 255 \/ FitsName(name, u.val))
         THEN IdentifierName(s, u.pos, Append(name, u.val), sure /\ u.val <= 255)
         ELSE Named(FALSE, sure, p, name)
    ELSE IF c # -1 /\ FitsName(name, c) THEN IdentifierName(s, p + 1, Append(name, c), sure)
    ELSE Named(FALSE, sure, p, name)

\* RegExpIdentifierName from position p up to the closing >, with the code
\* points collected so far
IdentifierName(s, p, name, sure) ==
    IdentifierNameOf(s, p, name, sure, CharAt(s, p), UnicodeEscape(s, p + 2, TRUE))

\* GroupName at position p: < RegExpIdentifierName >
GroupName(s, p) ==
    IF CharAt(s, p) = 60 THEN IdentifierName(s, p + 1, <<>>, TRUE)
    ELSE Named(FALSE, TRUE, p, <<>>)

\* a braced quantifier: its end and the order of its bounds
Braced(ok, pos, order) == [ok |-> ok, pos |-> pos, order |-> order]

\* the order of the bounds lo and hi, numerals without leading zeros:
\* numbers of ten digits and more are held at a largest value by some
\* engines, which then find them in order
BoundsOrder(lo, hi, unbounded) ==
    IF unbounded \/ ~ StrippedGreater(lo, hi) THEN "in"
    ELSE IF Len(lo) > 9 \/ Len(hi) > 9 THEN "engine"
    ELSE "out"

\* {n} {n,} {n,m} at the brace at position p, where e1 and e2 are the ends
\* of the digits of n and of m
BracedQuantifierOf(s, p, e1, e2) ==
    IF e1 = p + 1 THEN Braced(FALSE, p, "in")
    ELSE IF CharAt(s, e1) = 125 THEN Braced(TRUE, e1 + 1, "in")
    ELSE IF CharAt(s, e1) = 44 /\ CharAt(s, e2) = 125
    THEN Braced(TRUE, e2 + 1,
                BoundsOrder(StripZeros(SubSeq(s, p + 1, e1 - 1)),
                            StripZeros(SubSeq(s, e1 + 1, e2 - 1)), e2 = e1 + 1))
    ELSE Braced(FALSE, p, "in")

BracedQuantifierFrom(s, p, e1) == BracedQuantifierOf(s, p, e1, DigitsEnd(s, e1 + 1))

\* {n} {n,} {n,m} at the brace at position p
BracedQuantifier(s, p) == BracedQuantifierFrom(s, p, DigitsEnd(s, p + 1))

\* an optional ? after a quantifier
Lazy(s, st) == IF CharAt(s, st.pos) = 63 THEN Advance(st, 1) ELSE st

QuantifierOf(s, st, c, b) ==
    IF c \in {42, 43, 63} THEN Lazy(s, Advance(st, 1))
    ELSE IF c = 123 /\ b.ok
    THEN IF b.order = "out" THEN Fail(st)
         ELSE Lazy(s, [st EXCEPT !.pos = b.pos, !.sure = @ /\ b.order = "in"])
    ELSE st

\* an optional Quantifier at st.pos
Quantifier(s, st) ==
    QuantifierOf(s, st, CharAt(s, st.pos), BracedQuantifier(s, st.pos))

\* the end of the flags i m s from position q on
RECURSIVE ModifierFlagsEnd(_, _)
ModifierFlagsEnd(s, q) ==
    IF CharAt(s, q) \in {105, 109, 115} THEN ModifierFlagsEnd(s, q + 1) ELSE q

\* the modifiers at the positions p..a-1 and a+1..b-1 before the colon at b:
\* no flag is given twice and one is given
ModifiersOf(s, p, a, b) ==
    IF /\ CharAt(s, b) = 58
       /\ (p..(a - 1)) \cup ((a + 1)..(b - 1)) # {}
       /\ \A j, k \in (p..(a - 1)) \cup ((a + 1)..(b - 1)) : j # k => s[j] # s[k]
    THEN b + 1
    ELSE 0

ModifiersFrom(s, p, a) ==
    ModifiersOf(s, p, a, IF CharAt(s, a) = 45 THEN ModifierFlagsEnd(s, a + 1) ELSE a)

\* the modifiers of (?ims-ims: from position p on: the position after the
\* colon, 0 when the text is not of that form
Modifiers(s, p) == ModifiersFrom(s, p, ModifierFlagsEnd(s, p))

\* the reference to the name n taken into the parser's state
WithReference(st, n) ==
    IF n.ok
    THEN [st EXCEPT !.pos = n.pos, !.sure = @ /\ n.sure, !.refs = @ \cup {n.name}]
    ELSE Fail(st)

\* \k GroupName at the backslash at st.pos
NamedReference(s, st) == WithReference(st, GroupName(s, st.pos + 2))

\* an escape that is an atom, at the backslash at st.pos, without the u and
\* v flags: every character may be escaped, but k when the pattern has a
\* group name; a c before no letter leaves the backslash an atom of its own
AtomEscapeLegacy(s, m, st) ==
    LET e == CharAt(s, st.pos + 1)
    IN  IF e = -1 THEN Fail(st)
        ELSE IF e = 107 /\ m.N THEN NamedReference(s, st)
        ELSE IF e = 99
        THEN IF IsAsciiLetter(CharAt(s, st.pos + 2)) THEN Advance(st, 3)
             ELSE Advance(st, 1)
        ELSE Advance(st, 2)

\* the escape at the backslash at st.pos in Unicode mode, where e is the
\* code unit after it, de the end of the digits there, n the number they
\* denote, and ce and pe the character and the property escape read there
AtomEscapeUnicodeOf(s, st, e, de, n, ce, pe) ==
    IF e = -1 THEN Fail(st)
    ELSE IF e = 107 THEN NamedReference(s, st)
    ELSE IF e \in 49..57
    THEN [st EXCEPT !.pos = de, !.maxref = IF n > @ THEN n ELSE @]
    ELSE IF e \in ClassEscapeUnits THEN Advance(st, 2)
    ELSE IF e \in {112, 80}
    THEN IF pe.ok THEN [st EXCEPT !.pos = pe.pos, !.sure = @ /\ pe.sure] ELSE Fail(st)
    ELSE IF ce.ok THEN [st EXCEPT !.pos = ce.pos]
    ELSE Fail(st)

AtomEscapeUnicodeFrom(s, m, st, de) ==
    AtomEscapeUnicodeOf(s, st, CharAt(s, st.pos + 1), de,
                        DecimalNumber(SubSeq(s, st.pos + 1, de - 1), 0),
                        CharacterEscapeUnicode(s, st.pos),
                        PropertyEscape(s, st.pos, m.V))

\* an escape that is an atom, at the backslash at st.pos, in Unicode mode
AtomEscapeUnicode(s, m, st) ==
    AtomEscapeUnicodeFrom(s, m, st, DigitsEnd(s, st.pos + 1))

\* an atom that begins with the code unit c at st.pos and is no group
Atom(s, m, st, c) ==
    IF c = 46 THEN Advance(st, 1)
    ELSE IF c = 91 THEN CharacterClass(s, m, st)
    ELSE IF c = 92
    THEN IF m.U THEN AtomEscapeUnicode(s, m, st) ELSE AtomEscapeLegacy(s, m, st)
    ELSE IF c \in {42, 43, 63} THEN Fail(st)
    ELSE IF c = 123 /\ (m.U \/ BracedQuantifier(s, st.pos).ok) THEN Fail(st)
    ELSE IF c \in {93, 125} /\ m.U THEN Fail(st)
    ELSE Advance(st, 1)

\* the state at the first position inside the group at the parenthesis at
\* st.pos: capturing, named n, (?: (?= (?! (?<= (?<! or with the modifiers
\* that end at mods; quant tells whether a quantifier may follow the group
GroupOpen(m, st, c1, c2, c3, n, mods) ==
    IF c1 # 63 THEN [st EXCEPT !.pos = @ + 1, !.ncap = @ + 1, !.quant = TRUE]
    ELSE IF c2 = 58 THEN [st EXCEPT !.pos = @ + 3, !.quant = TRUE]
    ELSE IF c2 \in {61, 33} THEN [st EXCEPT !.pos = @ + 3, !.quant = ~ m.U]
    ELSE IF c2 = 60 /\ c3 \in {61, 33} THEN [st EXCEPT !.pos = @ + 4, !.quant = FALSE]
    ELSE IF c2 = 60
    THEN IF n.ok
         THEN [st EXCEPT !.pos = n.pos, !.ncap = @ + 1, !.quant = TRUE,
                         !.sure = @ /\ n.sure,
                         !.names = Append(@, [name |-> n.name, path |-> st.path])]
         ELSE Fail(st)
    ELSE IF mods # 0 THEN [st EXCEPT !.pos = mods, !.sure = FALSE, !.quant = TRUE]
    ELSE Fail(st)

\* the closing parenthesis after the disjunction r of a group
GroupClose(s, quant, r) ==
    IF r.ok /\ CharAt(s, r.pos) = 41 THEN [r EXCEPT !.pos = @ + 1, !.quant = quant]
    ELSE Fail(r)

RECURSIVE Disjunction(_, _, _, _, _, _)
RECURSIVE Alternative(_, _, _)

\* the disjunction of a group, from its first position on, and its end
GroupBody(s, m, open) ==
    GroupClose(s, open.quant, Disjunction(s, m, open, open.path, open.pos, 1))

\* a group at the parenthesis at st.pos
Group(s, m, st) ==
    GroupBody(s, m, GroupOpen(m, st, CharAt(s, st.pos + 1), CharAt(s, st.pos + 2),
                              CharAt(s, st.pos + 3), GroupName(s, st.pos + 2),
                              Modifiers(s, st.pos + 2)))

\* an assertion, a group or an atom that begins with the code unit c at
\* st.pos; no quantifier may follow ^ $ \b \B
Piece(s, m, st, c, e) ==
    IF c = 40 THEN Group(s, m, st)
    ELSE IF c \in {94, 36} THEN [st EXCEPT !.pos = @ + 1, !.quant = FALSE]
    ELSE IF c = 92 /\ e \in {98, 66} THEN [st EXCEPT !.pos = @ + 2, !.quant = FALSE]
    ELSE [Atom(s, m, st, c) EXCEPT !.quant = TRUE]

\* the optional quantifier of the piece parsed up to t
Quantified(s, t) == IF t.ok /\ t.quant THEN Quantifier(s, t) ELSE t

\* Term at st.pos: an assertion, or an atom and its optional quantifier
Term(s, m, st) ==
    Quantified(s, Piece(s, m, st, CharAt(s, st.pos), CharAt(s, st.pos + 1)))

\* Alternative: terms up to a |, a ) or the end
Alternative(s, m, st) ==
    IF ~ st.ok \/ CharAt(s, st.pos) \in {-1, 124, 41} THEN st
    ELSE Alternative(s, m, Term(s, m, st))

\* after the alternative a, alternative k of the disjunction d
DisjunctionAfter(s, m, outer, d, k, a) ==
    IF a.ok /\ CharAt(s, a.pos) = 124
    THEN Disjunction(s, m, Advance(a, 1), outer, d, k + 1)
    ELSE [a EXCEPT !.path = outer]

\* Disjunction from st.pos on, in its alternative k; d names the
\* disjunction and outer the alternatives it stands in
Disjunction(s, m, st, outer, d, k) ==
    DisjunctionAfter(s, m, outer, d, k,
                     Alternative(s, m, [st EXCEPT !.path = Append(outer, <<d, k>>)]))

\* two groups stand in different alternatives of one disjunction
DifferentAlternatives(x, y) ==
    \E j \in 1..Len(x.path) : \E k \in 1..Len(y.path) :
        x.path[j][1] = y.path[k][1] /\ x.path[j][2] # y.path[k][2]

\* the pairs of groups of one name
NamedTwice(names) ==
    { p \in (1..Len(names)) \X (1..Len(names)) :
        p[1] < p[2] /\ names[p[1]].name = names[p[2]].name }

\* the early errors of the pattern s parsed up to r: a parenthesis left
\* over, a reference to a name or, in Unicode mode, to a number that no
\* group has, a name given twice; a name given twice in different
\* alternatives is accepted by the engines of ES2025
EarlyErrors(s, m, r, twice) ==
    IF ~ r.ok \/ r.pos <= Len(s) THEN Fail(r)
    ELSE IF \E n \in r.refs : \A j \in 1..Len(r.names) : r.names[j].name # n
    THEN Fail(r)
    ELSE IF m.U /\ r.maxref > r.ncap THEN Fail(r)
    ELSE IF \E p \in twice : ~ DifferentAlternatives(r.names[p[1]], r.names[p[2]])
    THEN Fail(r)
    ELSE IF twice # {} THEN Unsure(r)
    ELSE r

Parsed(s, m, r) == EarlyErrors(s, m, r, NamedTwice(r.names))

\* the pattern s parsed under the parameters m
ParsePattern(s, m) == Parsed(s, m, Disjunction(s, m, ParseStart, <<>>, 1, 1))

\* the flags hold the flag f
HasFlag(flags, f) == \E k \in 1..Len(flags) : flags[k] = f

\* without the u and v flags a pattern that has a group name in its parse
\* r0 is parsed again, with group names
ParsedAgain(exp, U, r0) ==
    IF ~ U /\ r0.ok /\ Len(r0.names) > 0
    THEN ParsePattern(exp, [U |-> FALSE, V |-> FALSE, N |-> TRUE])
    ELSE r0

\* the verdict on the parse r: "engine" where engines differ
Verdict(r) == IF ~ r.ok THEN "invalid" ELSE IF r.sure THEN "valid" ELSE "engine"

\* the parse of the pattern under the flags u and v
PatternUnder(exp, U, V) ==
    Verdict(ParsedAgain(exp, U, ParsePattern(exp, [U |-> U, V |-> V, N |-> U])))

\* ParsePattern of new RegExp: with the u or v flag in Unicode mode with
\* group names; otherwise without, and again with them when the pattern has
\* a group name
RegExpPattern(exp, flags) ==
    PatternUnder(exp, HasFlag(flags, 117) \/ HasFlag(flags, 118), HasFlag(flags, 118))

\* new RegExp(exp, flags) can accept the pattern: it is in the grammar, or
\* it is for an engine that knows a script, a group name beyond code unit
\* 255, the modifiers or the repeated group names of ES2025
PatternValid(exp, flags) == RegExpPattern(exp, flags) # "invalid"

\* new RegExp(exp, flags) can reject the pattern with a SyntaxError
PatternInvalid(exp, flags) == RegExpPattern(exp, flags) # "valid"

\* the flags d g i m s u v y in the order the flags of a RegExp are read in
FlagOrder == <<100, 103, 105, 109, 115, 117, 118, 121>>

\* the flags of the object: those given, in that order
FlagsInOrder(flags) == SelectSeq(FlagOrder, LAMBDA f : HasFlag(flags, f))

\* the source of the object from position p of the pattern on: a / outside
\* a class is escaped, a line feed and a carriage return are written \n and
\* \r (a backslash before them is left out), an escape is kept as it is
RECURSIVE EscapeSourceFrom(_, _, _)
EscapeSourceFrom(s, p, inClass) ==
    IF p > Len(s) THEN <<>>
    ELSE IF s[p] = 92
    THEN IF CharAt(s, p + 1) \in {10, 13} THEN EscapeSourceFrom(s, p + 1, inClass)
         ELSE IF p = Len(s) THEN <<92>>
         ELSE <<92, s[p + 1]>> \o EscapeSourceFrom(s, p + 2, inClass)
    ELSE IF s[p] = 47 /\ ~ inClass THEN <<92, 47>> \o EscapeSourceFrom(s, p + 1, inClass)
    ELSE IF s[p] = 91 THEN <<91>> \o EscapeSourceFrom(s, p + 1, TRUE)
    ELSE IF s[p] = 93 THEN <<93>> \o EscapeSourceFrom(s, p + 1, FALSE)
    ELSE IF s[p] = 10 THEN <<92, 110>> \o EscapeSourceFrom(s, p + 1, inClass)
    ELSE IF s[p] = 13 THEN <<92, 114>> \o EscapeSourceFrom(s, p + 1, inClass)
    ELSE <<s[p]>> \o EscapeSourceFrom(s, p + 1, inClass)

\* the source of the object: (?:) for the empty pattern
EscapeRegExpSource(exp) ==
    IF Len(exp) = 0 THEN <<40, 63, 58, 41>> ELSE EscapeSourceFrom(exp, 1, FALSE)

\* the object new RegExp(exp, flags) constructs, by its source and flags
RegExpValue(exp, flags) ==
    [kind |-> "regexp", source |-> EscapeRegExpSource(exp), flags |-> FlagsInOrder(flags)]

----------------------------------------------------------------------------
(* The inputs: bytecode modules *)

\* little-endian encodings of doubles
F64_3_14 == <<31, 133, 235, 81, 184, 30, 9, 64>>
F64_NegZero == <<0, 0, 0, 0, 0, 0, 0, 128>>
F64_Zero == <<0, 0, 0, 0, 0, 0, 0, 0>>
F64_NaN == <<0, 0, 0, 0, 0, 0, 248, 127>>
F64_NaNPayload == <<255, 255, 255, 255, 255, 255, 255, 255>>
F64_Max == <<255, 255, 255, 255, 255, 255, 239, 127>>
F64_Min == <<1, 0, 0, 0, 0, 0, 0, 0>>
F64_MinNormal == <<0, 0, 0, 0, 0, 0, 16, 0>>
F64_NegInfinity == <<0, 0, 0, 0, 0, 0, 240, 255>>
F64_Mixed == <<1, 2, 3, 4, 5, 6, 7, 8>>

F64Samples ==
    {F64_3_14, F64_NegZero, F64_Zero, F64_NaN, F64_NaNPayload, F64_Max, F64_Min,
     F64_MinNormal, F64_NegInfinity, F64_Mixed}

\* instruction chunks: an opcode with its operand bytes, whole or cut short
Chunks ==
    { <<1, 97, 98, 0>>,             \* LOAD_STRING "ab"
      <<1, 0>>,                     \* LOAD_STRING ""
      <<1, 97>>,                    \* LOAD_STRING without terminator
      <<2>> \o F64_3_14,            \* LOAD_FLOAT64 3.14
      <<3, 1>>,                     \* LOAD_BOOL true
      <<3>>,                        \* LOAD_BOOL, operand is the next byte if any
      <<4>>,                        \* POP
      <<5>>,                        \* LOAD_NULL
      <<7>>,                        \* LOAD_UNDEFINED
      <<8>>,                        \* RETURN
      <<255>>,                      \* no opcode
      <<6, 97, 0, 103, 0>>,         \* LOAD_REGEX a, flags g
      <<6, 97, 0, 120, 0>>,         \* LOAD_REGEX a, flags x (not a flag)
      <<6, 97>> }                   \* LOAD_REGEX without terminators

\* the chunks of the buffers that two instances run
PairChunks ==
    { <<1, 97, 0>>, <<2>> \o F64_3_14, <<3, 1>>, <<4>>, <<5>>, <<7>>, <<8>>,
      <<255>>, <<6, 97, 0, 103, 0>>, <<6, 97, 0, 120, 0>> }

RECURSIVE Flatten(_)
Flatten(ss) == IF Len(ss) = 0 THEN <<>> ELSE Head(ss) \o Flatten(Tail(ss))

\* the buffers made of at most n chunks of cs
Programs(cs, n) == UNION { { Flatten(ss) : ss \in [1..k -> cs] } : k \in 0..n }

\* the functions of a module after the entry function
OtherFunctions == { <<>>, << <<5, 8>> >>, << <<255>>, <<7, 8>> >> }
PairOtherFunctions == { <<>>, << <<255>>, <<7, 8>> >> }

\* single-function modules of general programs; modules with more functions
GeneralModules ==
    { <<p>> : p \in Programs(Chunks, MaxInstr) }
    \cup { <<p>> \o o : p \in Programs(Chunks, MaxInstr - 1), o \in OtherFunctions }

\* LOAD_BOOL with every operand byte, on an empty and on a non-empty stack
BoolModules ==
    { << pre \o <<3, b>> \o post >> :
        pre \in {<<>>, <<5>>}, b \in 0..255, post \in {<<>>, <<8>>} }

\* LOAD_FLOAT64 with every sample encoding, whole or cut short
FloatModules ==
    { << pre \o <<2>> \o enc \o post >> :
        pre \in {<<>>, <<5>>}, enc \in F64Samples, post \in {<<>>, <<8>>, <<8, 5>>, <<5, 4>>} }
    \cup { << <<2>> \o SubSeq(enc, 1, n) >> : enc \in F64Samples, n \in 0..7 }

\* elements that are no bytes: new Uint8Array wraps them
WrappedModules == { << <<261, 264>> >>, << <<257, 353, 256, 8>> >> }

\* patterns of LOAD_REGEX, as they follow the opcode byte
RegExpPatternSamples ==
    { <<46>>,                                       \* .
      <<40>>,                                       \* (
      <<93>>,                                       \* ]
      <<97, 124, 98>>,                              \* a|b
      <<91, 98, 45, 97, 93>>,                       \* [b-a]
      <<97, 123, 50, 44, 49, 125>>,                 \* a{2,1}
      <<91, 97, 38, 38, 98, 93>>,                   \* [a&&b]
      <<40, 63, 60, 110, 62, 97, 41, 92, 107, 60, 110, 62>>,  \* (?<n>a)\k<n>
      <<40, 63, 105, 58, 97, 41>>,                  \* (?i:a)
      <<40, 63, 60, 97, 92, 117, 48, 48, 51, 69, 62, 98, 41>>,  \* (?<a\u003E>b)
      <<47>>,                                       \* /
      <<97, 10>> }                                  \* a and a line feed

\* flags of LOAD_REGEX: none, g, u, v, yg, and x, which is no flag
RegExpFlagsSamples == { <<>>, <<103>>, <<117>>, <<118>>, <<121, 103>>, <<120>> }

\* LOAD_REGEX with every sample pattern under every sample of flags
RegexModules ==
    { << pre \o <<6>> \o pat \o <<0>> \o fl \o <<0>> \o post >> :
        pre \in {<<>>, <<5>>}, pat \in RegExpPatternSamples,
        fl \in RegExpFlagsSamples, post \in {<<>>, <<8>>} }

Modules ==
    GeneralModules \cup BoolModules \cup FloatModules \cup WrappedModules
    \cup RegexModules

----------------------------------------------------------------------------
(* The state after construction *)

NoOutcome == [kind |-> "none"]
Returns(value) == [kind |-> "return", value |-> value]
Throws(error) == [kind |-> "throw", error |-> error]

\* the instances ids are constructed, instance i from the module m[i]
InitFrom(m) ==
    /\ module = m
    /\ vm = [i \in DOMAIN m |-> NewVM(m[i])]
    /\ run = [i \in DOMAIN m |-> [pc |-> "idle", calls |-> 0, outcome |-> NoOutcome]]
    /\ console = [i \in DOMAIN m |-> <<>>]
    /\ trace = [i \in DOMAIN m |-> <<>>]

\* one instance, constructed from any module
Init == \E m \in Modules : InitFrom([i \in {1} |-> m])

\* two instances, constructed independently from modules with the same entry
\* buffer and any other functions
InitPair ==
    \E p \in Programs(PairChunks, MaxInstrPair), o1, o2 \in PairOtherFunctions :
        InitFrom([i \in {1, 2} |-> IF i = 1 THEN <<p>> \o o1 ELSE <<p>> \o o2])

----------------------------------------------------------------------------
(* run(): the dispatch loop *)

\* the state a dispatcher iteration of instance i starts from
Snapshot(i) ==
    [at |-> vm[i].ip, op |-> At(vm[i].bytecode, vm[i].ip),
     stack |-> vm[i].stack, callStack |-> vm[i].callStack, calls |-> run[i].calls]

\* instance i is at the top of the for loop and fetches an opcode in ops
Fetches(i, ops) ==
    /\ run[i].pc = "loop"
    /\ vm[i].ip < Len(vm[i].bytecode)
    /\ At(vm[i].bytecode, vm[i].ip) \in ops

\* a loop whose instruction pointer is one variable shared by all instances
BreakSharedIp(i, v, lines) ==
    /\ vm' = [j \in DOMAIN vm |->
                IF j = i THEN [v EXCEPT !.ip = @ + 1]
                ELSE [vm[j] EXCEPT !.ip = v.ip + 1]]
    /\ console' = [console EXCEPT ![i] = @ \o lines]
    /\ trace' = [trace EXCEPT ![i] = Append(@, Snapshot(i))]
    /\ UNCHANGED <<module, run>>

\* a loop without its increment
BreakNoIncrement(i, v, lines) ==
    /\ vm' = [vm EXCEPT ![i] = v]
    /\ console' = [console EXCEPT ![i] = @ \o lines]
    /\ trace' = [trace EXCEPT ![i] = Append(@, Snapshot(i))]
    /\ UNCHANGED <<module, run>>

\* the case ended with break: the for loop's this.ip++ follows
Break(i, v, lines) ==
    /\ vm' = [vm EXCEPT ![i] = [v EXCEPT !.ip = @ + 1]]
    /\ console' = [console EXCEPT ![i] = @ \o lines]
    /\ trace' = [trace EXCEPT ![i] = Append(@, Snapshot(i))]
    /\ UNCHANGED <<module, run>>

\* the case left run() with an outcome (return or throw): no this.ip++
Leave(i, v, lines, outcome) ==
    /\ vm' = [vm EXCEPT ![i] = v]
    /\ console' = [console EXCEPT ![i] = @ \o lines]
    /\ trace' = [trace EXCEPT ![i] = Append(@, Snapshot(i))]
    /\ run' = [run EXCEPT ![i].pc = "done", ![i].outcome = outcome]
    /\ UNCHANGED module

\* the number of calls of run() the model follows on an instance
RunLimit == IF Cardinality(DOMAIN vm) = 1 THEN MaxRuns ELSE MaxRunsPair

\* a call of run(): console.log('bytecode', this.bytecode), then the loop
RunCall(i) ==
    /\ run[i].pc # "loop"
    /\ run[i].calls < RunLimit
    /\ run' = [run EXCEPT ![i] = [pc |-> "loop", calls |-> @.calls + 1,
                                  outcome |-> NoOutcome]]
    /\ console' = [console EXCEPT ![i] = Append(@, <<"bytecode", vm[i].bytecode>>)]
    /\ UNCHANGED <<module, vm, trace>>

\* case 0x01
LoadString(i) ==
    /\ Fetches(i, {OP_LOAD_STRING})
    /\ LET r == readString(vm[i])
           v == push(r.vm, r.val)
       IN  Break(i, v, << <<"OP_LOAD_STRING", peek(v)>> >>)

\* case 0x02
LoadFloat64(i) ==
    /\ Fetches(i, {OP_LOAD_FLOAT64})
    /\ LET r == readFloat64(vm[i])
           v == push(r.vm, r.val)
       IN  Break(i, v, << <<"OP_LOAD_FLOAT64", peek(v)>> >>)

\* case 0x03
LoadBool(i) ==
    /\ Fetches(i, {OP_LOAD_BOOL})
    /\ LET r == readUInt8(vm[i])
           v == push(r.vm, Bool(r.val = 1))
       IN  Break(i, v, << <<"OP_LOAD_BOOL", peek(v)>> >>)

\* case 0x04
Pop(i) ==
    /\ Fetches(i, {OP_POP})
    /\ LET r == pop(vm[i])
       IN  Break(i, r.vm, << <<"OP_POP", r.val>> >>)

\* case 0x05
LoadNull(i) ==
    /\ Fetches(i, {OP_LOAD_NULL})
    /\ Break(i, push(vm[i], Null), << <<"OP_NULL">> >>)

\* a case 0x06 that catches the SyntaxError, pushes undefined and goes on
LoadRegexRecovers(i) ==
    /\ Fetches(i, {OP_LOAD_REGEX})
    /\ LET r1 == readString(vm[i])
           skipped == [r1.vm EXCEPT !.ip = @ + 1]
           r2 == readString(skipped)
           exp == r1.val.units
           flags == r2.val.units
       IN  \/ /\ PatternValid(exp, flags) /\ FlagsValid(flags)
              /\ Break(i, push(r2.vm, RegExpValue(exp, flags)),
                       << <<"OP_REGEX", exp, flags>> >>)
           \/ /\ PatternInvalid(exp, flags) \/ ~ FlagsValid(flags)
              /\ Break(i, push(r2.vm, Undefined), <<>>)

\* case 0x06: new RegExp(exp, flags) throws a SyntaxError out of run() when
\* the pattern or the flags are invalid
LoadRegex(i) ==
    /\ Fetches(i, {OP_LOAD_REGEX})
    /\ LET r1 == readString(vm[i])
           skipped == [r1.vm EXCEPT !.ip = @ + 1]
           r2 == readString(skipped)
           exp == r1.val.units
           flags == r2.val.units
       IN  \/ /\ PatternValid(exp, flags) /\ FlagsValid(flags)
              /\ Break(i, push(r2.vm, RegExpValue(exp, flags)),
                       << <<"OP_REGEX", exp, flags>> >>)
           \/ /\ PatternInvalid(exp, flags) \/ ~ FlagsValid(flags)
              /\ Leave(i, r2.vm, <<>>, Throws("SyntaxError"))

\* case 0x07
LoadUndefined(i) ==
    /\ Fetches(i, {OP_LOAD_UNDEFINED})
    /\ Break(i, push(vm[i], Undefined), << <<"OP_UNDEFINED">> >>)

\* case 0x08
Return(i) ==
    /\ Fetches(i, {OP_RETURN})
    /\ LET popped == [vm[i] EXCEPT
                        !.callStack = IF Len(@) = 0 THEN @ ELSE SubSeq(@, 1, Len(@) - 1)]
           r == pop(popped)
           returnValue == r.val
       IN  IF Len(r.vm.callStack) = 0
           THEN Leave(i, r.vm, << <<"OP_RETURN (main)", returnValue>> >>,
                      Returns(returnValue))
           ELSE Leave(i, push(r.vm, returnValue), << <<"OP_RETURN", returnValue>> >>,
                      Returns(returnValue))

\* a default case that ends with break instead of return
UnknownOpcodeBreaks(i) ==
    /\ Fetches(i, 0..255 \ KnownOpcodes)
    /\ Break(i, vm[i], << <<"Unknown opcode: ", At(vm[i].bytecode, vm[i].ip)>> >>)

\* default: console.log("Unknown opcode: " + op); return
UnknownOpcode(i) ==
    /\ Fetches(i, 0..255 \ KnownOpcodes)
    /\ Leave(i, vm[i], << <<"Unknown opcode: ", At(vm[i].bytecode, vm[i].ip)>> >>,
             Returns(Undefined))

\* the loop condition fails: this.printStack(), and run() returns undefined
LoopExit(i) ==
    /\ run[i].pc = "loop"
    /\ ~ (vm[i].ip < Len(vm[i].bytecode))
    /\ run' = [run EXCEPT ![i].pc = "done", ![i].outcome = Returns(Undefined)]
    /\ console' = [console EXCEPT ![i] = Append(@, <<"STACK:", vm[i].stack>>)]
    /\ UNCHANGED <<module, vm, trace>>

Next ==
    \/ \E i \in DOMAIN vm : RunCall(i)
    \/ \E i \in DOMAIN vm : LoadString(i)
    \/ \E i \in DOMAIN vm : LoadFloat64(i)
    \/ \E i \in DOMAIN vm : LoadBool(i)
    \/ \E i \in DOMAIN vm : Pop(i)
    \/ \E i \in DOMAIN vm : LoadNull(i)
    \/ \E i \in DOMAIN vm : LoadRegex(i)
    \/ \E i \in DOMAIN vm : LoadUndefined(i)
    \/ \E i \in DOMAIN vm : Return(i)
    \/ \E i \in DOMAIN vm : UnknownOpcode(i)
    \/ \E i \in DOMAIN vm : LoopExit(i)

Spec == Init /\ [][Next]_vars

SpecPair == InitPair /\ [][Next]_vars

----------------------------------------------------------------------------
(* Reading the trace: iteration k of instance i started from trace[i][k]   *)
(* and led to the state the next iteration started from, or to the         *)
(* current state when it is the latest                                     *)

Iterations(i) == 1..Len(trace[i])

IsLatest(i, k) == k = Len(trace[i])

StackAfter(i, k) == IF IsLatest(i, k) THEN vm[i].stack ELSE trace[i][k + 1].stack

CallStackAfter(i, k) ==
    IF IsLatest(i, k) THEN vm[i].callStack ELSE trace[i][k + 1].callStack

IpAfter(i, k) == IF IsLatest(i, k) THEN vm[i].ip ELSE trace[i][k + 1].at

\* run() has ended and iteration k was the last one of that call
EndedBy(i, k) ==
    /\ IsLatest(i, k)
    /\ run[i].pc = "done"
    /\ run[i].calls = trace[i][k].calls

Top(stack) == stack[Len(stack)]

----------------------------------------------------------------------------
(* RETURN on a non-empty stack *)

Float_3_14 == Num(0, 1024, 38252052, 32212255)

\* C1: in a single-function module, a RETURN executed on a non-empty stack
\* empties the call stack, makes run() return the value that was on top of
\* the stack, and no instruction after the RETURN byte is ever executed;
\* LOAD_FLOAT64 3.14; RETURN returns 3.14
C1_ReturnYieldsTop ==
    \A i \in DOMAIN vm :
        /\ \A k \in Iterations(i) :
            LET e == trace[i][k]
            IN  (Len(module[i]) = 1 /\ e.op = OP_RETURN /\ Len(e.stack) > 0) =>
                    /\ CallStackAfter(i, k) = <<>>
                    /\ IpAfter(i, k) = e.at
                    /\ \A j \in Iterations(i) : j > k => trace[i][j].at <= e.at
                    /\ IsLatest(i, k) =>
                        /\ run[i].calls = e.calls => run[i].pc = "done"
                        /\ run[i].pc = "done" => run[i].outcome = Returns(Top(e.stack))
        /\ (module[i] = << <<2>> \o F64_3_14 \o <<8>> >> /\ run[i].pc = "done"
                /\ run[i].calls = 1) =>
               run[i].outcome = Returns(Float_3_14)

\* a single-function module with two values on the stack has returned the top
\* one, with an instruction left after the RETURN byte
C1_Witness ==
    \E i \in DOMAIN vm :
        /\ Len(module[i]) = 1
        /\ Len(trace[i]) > 0
        /\ LET e == trace[i][Len(trace[i])]
           IN  /\ e.op = OP_RETURN
               /\ Len(e.stack) = 2
               /\ e.stack[1] # e.stack[2]
               /\ e.at + 1 < Len(vm[i].bytecode)
               /\ run[i].pc = "done"
               /\ run[i].outcome = Returns(Float_3_14)

----------------------------------------------------------------------------
(* Faults *)

\* C2: when the dispatcher fetches a byte that is no opcode, the outcome of
\* run() carries the byte and its position (as a thrown or a returned fault
\* description), and so differs from the outcome of a run that ended
\* without a fault
C2_UnknownOpcodeReported ==
    \A i \in DOMAIN vm : \A k \in Iterations(i) :
        LET e == trace[i][k]
        IN  (e.op \notin KnownOpcodes /\ EndedBy(i, k)) =>
                /\ run[i].outcome # Returns(Undefined)
                /\ \/ run[i].outcome = Throws([opcode |-> e.op, ip |-> e.at])
                   \/ run[i].outcome = Returns([opcode |-> e.op, ip |-> e.at])

\* C3: a RETURN executed on an empty stack does not make run() return
\* undefined as if the program had returned a value
C3_ReturnOnEmptyFaults ==
    \A i \in DOMAIN vm : \A k \in Iterations(i) :
        LET e == trace[i][k]
        IN  (e.op = OP_RETURN /\ e.stack = <<>> /\ EndedBy(i, k)) =>
                run[i].outcome.kind # "return"

\* the position of the first zero byte after position p, or the length
FirstZeroAfter(bytecode, p) ==
    LET zeros == { q \in (p + 1)..(Len(bytecode) - 1) : At(bytecode, q) = 0 }
    IN  IF zeros = {} THEN Len(bytecode)
        ELSE CHOOSE q \in zeros : \A z \in zeros : q <= z

\* the bytes at positions from..to - 1
Bytes(bytecode, from, to) == [k \in 1..(to - from) |-> bytecode[from + k]]

\* C4: LOAD_STRING at position p pushes the string of the bytes at p + 1 ..
\* q - 1, q the position of the first zero byte after p or the length of the
\* buffer; the buffer [1, 0] pushes the empty string
C4_LoadStringOperand ==
    \A i \in DOMAIN vm : \A k \in Iterations(i) :
        LET e == trace[i][k]
            q == FirstZeroAfter(vm[i].bytecode, e.at)
        IN  e.op = OP_LOAD_STRING =>
                StackAfter(i, k) =
                    Append(e.stack, Str(Bytes(vm[i].bytecode, e.at + 1, q)))

\* C5: a POP executed on an empty stack ends the run in a fault at that
\* instruction: run() is left without a normal return and no later
\* instruction is executed by that call
C5_PopOnEmptyIsFatal ==
    \A i \in DOMAIN vm : \A k \in Iterations(i) :
        LET e == trace[i][k]
        IN  (e.op = OP_POP /\ e.stack = <<>>) =>
                /\ IsLatest(i, k) /\ run[i].calls = e.calls =>
                        run[i].pc = "done" /\ run[i].outcome.kind # "return"
                /\ ~ IsLatest(i, k) => trace[i][k + 1].calls # e.calls

----------------------------------------------------------------------------
(* The entry frame *)

\* iteration k of instance i threw out of run(): a LOAD_REGEX that pushed
\* nothing
Threw(i, k) == trace[i][k].op = OP_LOAD_REGEX /\ StackAfter(i, k) = trace[i][k].stack

\* some call of run() on instance i has ended by a RETURN or by a fault
Ended(i) ==
    \E k \in Iterations(i) :
        \/ trace[i][k].op = OP_RETURN
        \/ trace[i][k].op \notin KnownOpcodes
        \/ Threw(i, k)

\* C6: while run() is in its loop and no call of it has ended by RETURN or
\* by a fault, the call stack has a frame and its first frame references
\* function 0; an iteration that removes a frame is the last one of its run
C6_EntryFrameWhileRunning ==
    \A i \in DOMAIN vm :
        /\ (run[i].pc = "loop" /\ ~ Ended(i)) =>
                /\ Len(vm[i].callStack) >= 1
                /\ vm[i].callStack[1].func = 0
                /\ vm[i].functions[vm[i].callStack[1].func + 1].code = vm[i].bytecode
        /\ \A k \in Iterations(i) :
            Len(CallStackAfter(i, k)) < Len(trace[i][k].callStack) =>
                /\ IsLatest(i, k) /\ run[i].calls = trace[i][k].calls => run[i].pc = "done"
                /\ ~ IsLatest(i, k) => trace[i][k + 1].calls > trace[i][k].calls

\* a module of three functions ran a load with the entry frame in place and
\* then a RETURN, which removed the frame and ended the run
C6_Witness ==
    \E i \in DOMAIN vm :
        /\ Len(module[i]) = 3
        /\ Len(trace[i]) = 2
        /\ trace[i][1].op = OP_LOAD_STRING
        /\ trace[i][2].op = OP_RETURN
        /\ trace[i][2].callStack = <<StackFrame(0)>>
        /\ vm[i].callStack = <<>>
        /\ run[i].pc = "done"

----------------------------------------------------------------------------
(* LOAD_BOOL and POP *)

\* C7: LOAD_BOOL at position p whose operand byte is in the buffer pushes
\* true when that byte is 1 and false for every other byte, on top of an
\* unchanged stack
C7_LoadBoolOperand ==
    \A i \in DOMAIN vm : \A k \in Iterations(i) :
        LET e == trace[i][k]
        IN  (e.op = OP_LOAD_BOOL /\ e.at + 1 < Len(vm[i].bytecode)) =>
                /\ StackAfter(i, k) =
                       Append(e.stack, Bool(vm[i].bytecode[e.at + 2] = 1))
                /\ vm[i].bytecode[e.at + 2] \in {0, 255} =>
                       Top(StackAfter(i, k)) = [kind |-> "boolean", b |-> FALSE]

\* LOAD_BOOL with operand 1 has pushed true on a non-empty stack
C7_Witness ==
    \E i \in DOMAIN vm :
        /\ Len(trace[i]) > 0
        /\ LET e == trace[i][Len(trace[i])]
           IN  /\ e.op = OP_LOAD_BOOL
               /\ Len(e.stack) > 0
               /\ At(vm[i].bytecode, e.at + 1) = 1
               /\ vm[i].stack = Append(e.stack, Bool(TRUE))

\* C8: POP on a non-empty stack removes the top element only, so LOAD_NULL
\* or LOAD_UNDEFINED followed at once by POP leaves the stack as it was; the
\* program [5, 4] ends when the buffer is exhausted, with an empty stack, the
\* entry frame on the call stack and no fault
C8_PopRemovesTop ==
    \A i \in DOMAIN vm :
        /\ \A k \in Iterations(i) :
            LET e == trace[i][k]
            IN  /\ (e.op = OP_POP /\ Len(e.stack) > 0) =>
                    StackAfter(i, k) = SubSeq(e.stack, 1, Len(e.stack) - 1)
                /\ (e.op \in {OP_LOAD_NULL, OP_LOAD_UNDEFINED} /\ ~ IsLatest(i, k)
                        /\ trace[i][k + 1].op = OP_POP) =>
                    /\ trace[i][k + 1].at = e.at + 1
                    /\ StackAfter(i, k + 1) = e.stack
        /\ (vm[i].bytecode = <<5, 4>> /\ run[i].pc = "done") =>
                /\ vm[i].stack = <<>>
                /\ vm[i].callStack = <<StackFrame(0)>>
                /\ vm[i].ip = 2
                /\ run[i].outcome = Returns(Undefined)
                /\ \A n \in 1..Len(console[i]) : console[i][n][1] # "Unknown opcode: "

\* LOAD_NULL then POP have run on a stack of two values and left it unchanged
C8_Witness ==
    \E i \in DOMAIN vm :
        /\ Len(trace[i]) >= 2
        /\ LET e == trace[i][Len(trace[i]) - 1]
               f == trace[i][Len(trace[i])]
           IN  /\ e.op = OP_LOAD_NULL
               /\ f.op = OP_POP
               /\ Len(e.stack) = 2
               /\ e.stack[1] # e.stack[2]
               /\ vm[i].stack = e.stack

----------------------------------------------------------------------------
(* LOAD_FLOAT64 *)

\* the little-endian IEEE-754 encoding of a double that is not NaN
EncodeFloat64LE(x) ==
    << x.fracLo % 256,
       (x.fracLo \div 256) % 256,
       (x.fracLo \div 65536) % 256,
       (x.fracLo \div 16777216) + (x.fracHi % 64) * 4,
       (x.fracHi \div 64) % 256,
       (x.fracHi \div 16384) % 256,
       (x.fracHi \div 4194304) + (x.exp % 16) * 16,
       (x.exp \div 16) + x.sign * 128 >>

\* eight little-endian bytes that encode a NaN: exponent bits all ones and a
\* fraction that is not zero
EncodesNaN(bytes) ==
    /\ bytes[8] % 128 = 127
    /\ bytes[7] \div 16 = 15
    /\ \/ bytes[7] % 16 # 0
       \/ \E n \in 1..6 : bytes[n] # 0

\* C10: LOAD_FLOAT64 at position p with its eight operand bytes in the
\* buffer pushes, on top of an unchanged stack, the double whose
\* little-endian encoding is the bytes at p + 1 .. p + 8 (NaN when they
\* encode a NaN); -0.0, the smallest and the largest double keep every bit
C10_LoadFloat64Operand ==
    \A i \in DOMAIN vm : \A k \in Iterations(i) :
        LET e == trace[i][k]
            bytes == Bytes(vm[i].bytecode, e.at + 1, e.at + 9)
            after == StackAfter(i, k)
            x == Top(after)
        IN  (e.op = OP_LOAD_FLOAT64 /\ e.at + 8 < Len(vm[i].bytecode)) =>
                /\ Len(after) = Len(e.stack) + 1
                /\ SubSeq(after, 1, Len(e.stack)) = e.stack
                /\ IpAfter(i, k) = e.at + 9
                /\ x.kind = "number"
                /\ IF EncodesNaN(bytes) THEN x.nan
                   ELSE ~ x.nan /\ EncodeFloat64LE(x) = bytes
                /\ bytes = F64_NegZero => x = Num(1, 0, 0, 0)
                /\ bytes = F64_Zero => x = Num(0, 0, 0, 0)
                /\ bytes = F64_Min => x = Num(0, 0, 0, 1)
                /\ bytes = F64_Max => x = Num(0, 2046, 67108863, 67108863)
                /\ bytes = F64_3_14 => x = Float_3_14
                /\ bytes = F64_NaN => x = NaN

\* LOAD_FLOAT64 has decoded the encoding of -0.0 on a non-empty stack
C10_Witness ==
    \E i \in DOMAIN vm :
        /\ Len(trace[i]) > 0
        /\ LET e == trace[i][Len(trace[i])]
           IN  /\ e.op = OP_LOAD_FLOAT64
               /\ e.at = 1
               /\ Len(e.stack) = 1
               /\ Bytes(vm[i].bytecode, e.at + 1, e.at + 9) = F64_NegZero
               /\ vm[i].stack = Append(e.stack, Num(1, 0, 0, 0))

----------------------------------------------------------------------------
(* Two instances *)

\* the state (ip, evaluation stack, call stack) instance i was in before its
\* n-th dispatcher iteration, or is in now
StateAt(i, n) ==
    IF n <= Len(trace[i])
    THEN <<trace[i][n].at, trace[i][n].stack, trace[i][n].callStack>>
    ELSE <<vm[i].ip, vm[i].stack, vm[i].callStack>>

\* two instances of one module agree on every state they have both been
\* through and on the outcome of their calls of run(), and each has the
\* function buffers it was constructed with
InstancesAgree ==
    \A i, j \in DOMAIN vm :
        module[i] = module[j] =>
            /\ \A n \in 1..(Len(trace[i]) + 1) :
                n <= Len(trace[j]) + 1 => StateAt(i, n) = StateAt(j, n)
            /\ (run[i].pc = "done" /\ run[j].pc = "done" /\ run[i].calls = run[j].calls) =>
                   run[i].outcome = run[j].outcome
            /\ vm[i].functions = [f \in 1..Len(module[i]) |-> VirtualFunction(module[i][f])]
            /\ vm[i].bytecode = vm[i].functions[1].code

\* a step that changes one instance leaves every other instance as it was
StepsAreLocal ==
    \A i \in DOMAIN vm :
        vm'[i] # vm[i] => \A j \in DOMAIN vm \ {i} : vm'[j] = vm[j]

\* C9: two instances constructed from the same module go through the same
\* sequence of (ip, evaluation stack, call stack) states and end run() with
\* the same value, however their steps interleave, and a step of one
\* instance never changes the ip, the stacks or the buffers of the other
C9_InstancesIndependent == [] InstancesAgree /\ [][StepsAreLocal]_vars

\* two instances of one module, stepped in turn, have both run LOAD_FLOAT64
\* and RETURN and returned the same value
C9_Witness ==
    /\ DOMAIN vm = {1, 2}
    /\ module[1] = module[2]
    /\ Len(module[1]) > 1
    /\ run[1].pc = "done" /\ run[2].pc = "done"
    /\ run[1].calls = 1 /\ run[2].calls = 1
    /\ Len(trace[1]) = 2 /\ Len(trace[2]) = 2
    /\ trace[1][2].op = OP_RETURN
    /\ run[1].outcome = Returns(Float_3_14)
    /\ run[2].outcome = Returns(Float_3_14)

----------------------------------------------------------------------------
(* The instruction pointer *)

\* the instruction with opcode op at position p has all its operand bytes,
\* terminators included, inside the buffer
OperandsInside(bytecode, p, op) ==
    CASE op \in {OP_POP, OP_LOAD_NULL, OP_LOAD_UNDEFINED} -> TRUE
      [] op = OP_LOAD_BOOL -> p + 1 < Len(bytecode)
      [] op = OP_LOAD_FLOAT64 -> p + 8 < Len(bytecode)
      [] op = OP_LOAD_STRING -> FirstZeroAfter(bytecode, p) < Len(bytecode)
      [] op = OP_LOAD_REGEX ->
            /\ FirstZeroAfter(bytecode, p) < Len(bytecode)
            /\ FirstZeroAfter(bytecode, FirstZeroAfter(bytecode, p)) < Len(bytecode)
      [] OTHER -> FALSE

\* the position after the opcode at p and its operand bytes
NextInstruction(bytecode, p, op) ==
    CASE op \in {OP_POP, OP_LOAD_NULL, OP_LOAD_UNDEFINED} -> p + 1
      [] op = OP_LOAD_BOOL -> p + 2
      [] op = OP_LOAD_FLOAT64 -> p + 9
      [] op = OP_LOAD_STRING -> FirstZeroAfter(bytecode, p) + 1
      [] op = OP_LOAD_REGEX -> FirstZeroAfter(bytecode, FirstZeroAfter(bytecode, p)) + 1

\* C11 as claimed: an instruction at position p with its operands inside
\* the buffer leaves the instruction pointer at p + 1 + the number of its
\* operand bytes, where the next opcode is fetched, and none of its operand
\* bytes is fetched as an opcode
C11_PointerAdvanceAlways ==
    \A i \in DOMAIN vm : \A k \in Iterations(i) :
        LET e == trace[i][k]
            next == NextInstruction(vm[i].bytecode, e.at, e.op)
        IN  OperandsInside(vm[i].bytecode, e.at, e.op) =>
                /\ IpAfter(i, k) = next
                /\ \A j \in Iterations(i) : trace[i][j].at \notin (e.at + 1)..(next - 1)

\* C11 as amended: an instruction at position p with its operands inside the
\* buffer that completes leaves the instruction pointer at p + 1 + the number
\* of its operand bytes, where the next opcode is fetched, and none of its
\* operand bytes is fetched as an opcode; a LOAD_REGEX that throws leaves the
\* pointer on its second terminator, which every later call of run() fetches
\* as the opcode 0, and none of its other operand bytes is fetched as an
\* opcode
C11_PointerAdvance ==
    \A i \in DOMAIN vm : \A k \in Iterations(i) :
        LET e == trace[i][k]
            next == NextInstruction(vm[i].bytecode, e.at, e.op)
        IN  OperandsInside(vm[i].bytecode, e.at, e.op) =>
                /\ ~ Threw(i, k) =>
                        /\ IpAfter(i, k) = next
                        /\ \A j \in Iterations(i) :
                                trace[i][j].at \notin (e.at + 1)..(next - 1)
                /\ Threw(i, k) =>
                        /\ IpAfter(i, k) = next - 1
                        /\ vm[i].ip = next - 1
                        /\ \A j \in Iterations(i) :
                                trace[i][j].at \notin (e.at + 1)..(next - 2)
                        /\ \A j \in Iterations(i) : j > k =>
                                /\ trace[i][j].calls > e.calls
                                /\ trace[i][j].at = next - 1
                                /\ trace[i][j].op = 0

\* a LOAD_REGEX with pattern and flags has run and the opcode after its
\* second terminator, a second LOAD_REGEX, has been fetched at 5; that one
\* has thrown, and a second call of run() has fetched its second terminator,
\* at 9, as an opcode
C11_Witness ==
    \E i \in DOMAIN vm :
        /\ Len(trace[i]) = 3
        /\ trace[i][1].op = OP_LOAD_REGEX
        /\ trace[i][1].at = 0
        /\ ~ Threw(i, 1)
        /\ trace[i][2].op = OP_LOAD_REGEX
        /\ trace[i][2].at = 5
        /\ OperandsInside(vm[i].bytecode, 5, OP_LOAD_REGEX)
        /\ Threw(i, 2)
        /\ trace[i][3].calls = 2
        /\ trace[i][3].at = 9
        /\ trace[i][3].op = 0
        /\ vm[i].ip = 9
        /\ Len(vm[i].bytecode) > 10

----------------------------------------------------------------------------
(* LOAD_REGEX *)

\* C12: a LOAD_REGEX at position p that pushes a value pushes the pattern
\* made of the bytes at p + 1 .. q - 1 and the flags made of the bytes at
\* q + 1 .. r - 1, q the position of the first zero byte after p and r that of
\* the next one (or the length of the buffer)
C12_LoadRegexOperands ==
    \A i \in DOMAIN vm : \A k \in Iterations(i) :
        LET e == trace[i][k]
            q == FirstZeroAfter(vm[i].bytecode, e.at)
            r == FirstZeroAfter(vm[i].bytecode, q)
        IN  (e.op = OP_LOAD_REGEX /\ q < Len(vm[i].bytecode) /\ ~ Threw(i, k)) =>
                StackAfter(i, k) =
                    Append(e.stack,
                           [kind |-> "regexp",
                            source |-> Bytes(vm[i].bytecode, e.at + 1, q),
                            flags |-> Bytes(vm[i].bytecode, q + 1, r)])

----------------------------------------------------------------------------
(* Terminal states *)

\* C13: once a RETURN has emptied the call stack, the evaluation stack, the
\* call stack and the instruction pointer stay as that RETURN left them,
\* whatever calls of run() follow
C13_ReturnedIsTerminal ==
    \A i \in DOMAIN vm : \A k \in Iterations(i) :
        LET e == trace[i][k]
        IN  (e.op = OP_RETURN /\ CallStackAfter(i, k) = <<>>) =>
                /\ vm[i].stack = StackAfter(i, k)
                /\ vm[i].callStack = <<>>
                /\ vm[i].ip = IpAfter(i, k)

\* C14: the iteration that meets a byte that is no opcode leaves the
\* evaluation stack and the call stack as they were and the instruction
\* pointer on that byte; from then on no instruction after that byte is
\* executed and further calls of run() leave the instance unchanged
C14_UnknownOpcodeIsTerminal ==
    \A i \in DOMAIN vm : \A k \in Iterations(i) :
        LET e == trace[i][k]
        IN  e.op \notin KnownOpcodes =>
                /\ StackAfter(i, k) = e.stack
                /\ CallStackAfter(i, k) = e.callStack
                /\ IpAfter(i, k) = e.at
                /\ IsLatest(i, k) /\ run[i].calls = e.calls => run[i].pc = "done"
                /\ \A j \in Iterations(i) : j > k =>
                        /\ trace[i][j].at = e.at
                        /\ trace[i][j].calls > e.calls
                /\ vm[i] = [NewVM(module[i]) EXCEPT
                                !.ip = e.at, !.stack = e.stack, !.callStack = e.callStack]

\* run() was called twice on a buffer with a byte that is no opcode between
\* two instructions: both calls stopped on that byte with the stack unchanged
C14_Witness ==
    \E i \in DOMAIN vm :
        /\ Len(trace[i]) = 3
        /\ trace[i][1].op = OP_LOAD_NULL
        /\ trace[i][2].op = 255
        /\ trace[i][3].op = 255
        /\ trace[i][3].calls = 2
        /\ run[i].pc = "done"
        /\ At(vm[i].bytecode, vm[i].ip + 1) = OP_LOAD_UNDEFINED
        /\ vm[i].stack = <<Null>>

----------------------------------------------------------------------------
(* The function table *)

\* C15: run() reads the buffer of function 0 only: two instances whose
\* modules have the same buffer 0, whatever their other functions, go through
\* the same sequence of states and end run() with the same outcome; the
\* function table stays as constructed and the buffer read is that of
\* function 0
C15_EntryBufferOnly ==
    \A i, j \in DOMAIN vm :
        /\ module[i][1] = module[j][1] =>
            /\ \A n \in 1..(Len(trace[i]) + 1) :
                n <= Len(trace[j]) + 1 => StateAt(i, n) = StateAt(j, n)
            /\ (run[i].pc = "done" /\ run[j].pc = "done" /\ run[i].calls = run[j].calls) =>
                   run[i].outcome = run[j].outcome
        /\ vm[i].functions = [f \in 1..Len(module[i]) |-> VirtualFunction(module[i][f])]
        /\ vm[i].bytecode = VirtualFunction(module[i][1]).code

\* a single-function module and a module of three functions with the same
\* entry buffer have both run LOAD_FLOAT64 and RETURN and returned 3.14
C15_Witness ==
    /\ DOMAIN vm = {1, 2}
    /\ Len(module[1]) = 1
    /\ Len(module[2]) = 3
    /\ module[1][1] = module[2][1]
    /\ run[1].pc = "done" /\ run[2].pc = "done"
    /\ Len(trace[1]) = 2 /\ Len(trace[2]) = 2
    /\ trace[2][2].op = OP_RETURN
    /\ run[1].outcome = Returns(Float_3_14)
    /\ run[2].outcome = Returns(Float_3_14)

----------------------------------------------------------------------------
(* Termination *)

\* the iterations of the c-th call of run() on instance i
IterationsOfCall(i, c) == { k \in Iterations(i) : trace[i][k].calls = c }

\* the latest call of run() on instance i ended in an iteration with an
\* opcode in ops
LastIterationIn(i, ops) ==
    /\ Len(trace[i]) > 0
    /\ trace[i][Len(trace[i])].calls = run[i].calls
    /\ trace[i][Len(trace[i])].op \in ops

\* an iteration that goes on to the next one moves the instruction pointer
\* forward, and no call of run() makes more iterations than the buffer has
\* bytes
PointerProgress(i) ==
    /\ \A k \in Iterations(i) :
        (trace[i][k].op \in KnownOpcodes \ {OP_RETURN}) => IpAfter(i, k) > trace[i][k].at
    /\ \A k \in Iterations(i) : IpAfter(i, k) >= trace[i][k].at
    /\ \A c \in 1..run[i].calls :
        Cardinality(IterationsOfCall(i, c)) <= Len(vm[i].bytecode)

BoolToNat(b) == IF b THEN 1 ELSE 0

\* C16 as claimed: the pointer moves forward, a call of run() makes at most
\* as many iterations as the buffer has bytes, and it ends in exactly one of:
\* a RETURN, a byte that is no opcode, the pointer at or beyond the length
C16_ThreeEndings ==
    \A i \in DOMAIN vm :
        /\ PointerProgress(i)
        /\ run[i].pc = "done" =>
            BoolToNat(LastIterationIn(i, {OP_RETURN}))
            + BoolToNat(LastIterationIn(i, 0..255 \ KnownOpcodes))
            + BoolToNat(vm[i].ip >= Len(vm[i].bytecode)) = 1

\* C16 as amended: the same, with a fourth ending, the SyntaxError that new
\* RegExp throws out of a LOAD_REGEX; the pointer at or beyond the length
\* counts as the ending when nothing was thrown
C16_FourEndings ==
    \A i \in DOMAIN vm :
        /\ PointerProgress(i)
        /\ run[i].pc = "done" =>
            /\ BoolToNat(LastIterationIn(i, {OP_RETURN}))
               + BoolToNat(LastIterationIn(i, 0..255 \ KnownOpcodes))
               + BoolToNat(run[i].outcome = Throws("SyntaxError"))
               + BoolToNat(vm[i].ip >= Len(vm[i].bytecode)
                           /\ run[i].outcome.kind # "throw") = 1
            /\ run[i].outcome = Throws("SyntaxError") =>
                   LastIterationIn(i, {OP_LOAD_REGEX})

\* a run of three iterations has ended in the SyntaxError of a LOAD_REGEX
\* with the pointer inside the buffer
C16_Witness ==
    \E i \in DOMAIN vm :
        /\ run[i].pc = "done"
        /\ run[i].calls = 1
        /\ run[i].outcome = Throws("SyntaxError")
        /\ Len(trace[i]) = 3
        /\ vm[i].ip < Len(vm[i].bytecode)

----------------------------------------------------------------------------
(* Operands cut short by the end of the buffer *)

\* the eight bytes after position p, zero where the buffer has none
PaddedOperand(bytecode, p) ==
    [n \in 1..8 |-> IF p + n < Len(bytecode) THEN bytecode[p + n + 1] ELSE 0]

\* C17: a LOAD_BOOL on the last byte of the buffer pushes false, and a
\* LOAD_FLOAT64 followed by fewer than eight bytes pushes the one double
\* encoded by those bytes followed by zeros; neither faults: the pointer ends
\* beyond the buffer, the entry frame stays, and run() ends when the loop
\* condition fails, returning undefined
C17_TruncatedOperand ==
    \A i \in DOMAIN vm : \A k \in Iterations(i) :
        LET e == trace[i][k]
            len == Len(vm[i].bytecode)
            after == StackAfter(i, k)
            cut == \/ e.op = OP_LOAD_BOOL /\ e.at + 1 >= len
                   \/ e.op = OP_LOAD_FLOAT64 /\ e.at + 8 >= len
        IN  /\ (e.op = OP_LOAD_BOOL /\ e.at + 1 >= len) =>
                    after = Append(e.stack, Bool(FALSE)) /\ IpAfter(i, k) = e.at + 2
            /\ (e.op = OP_LOAD_FLOAT64 /\ e.at + 8 >= len) =>
                    /\ Len(after) = Len(e.stack) + 1
                    /\ SubSeq(after, 1, Len(e.stack)) = e.stack
                    /\ Top(after).kind = "number"
                    /\ ~ Top(after).nan
                    /\ EncodeFloat64LE(Top(after)) = PaddedOperand(vm[i].bytecode, e.at)
                    /\ IpAfter(i, k) = e.at + 9
            /\ cut =>
                    /\ IsLatest(i, k)
                    /\ vm[i].callStack = <<StackFrame(0)>>
                    /\ vm[i].ip >= len
                    /\ run[i].outcome \in {NoOutcome, Returns(Undefined)}
                    /\ run[i].pc = "done" =>
                        /\ run[i].outcome = Returns(Undefined)
                        /\ console[i][Len(console[i])] = <<"STACK:", vm[i].stack>>

\* LOAD_FLOAT64 followed by the three bytes 1, 2, 3 has pushed the double
\* with those low bytes and run() has ended
C17_Witness ==
    \E i \in DOMAIN vm :
        /\ vm[i].bytecode = <<2, 1, 2, 3>>
        /\ run[i].pc = "done"
        /\ run[i].outcome = Returns(Undefined)
        /\ vm[i].stack = <<Num(0, 0, 0, 197121)>>
        /\ vm[i].ip = 9

----------------------------------------------------------------------------
(* The integer readers, called directly on an instance: run() never calls  *)
(* them                                                                    *)

\* the bytes of the buffers the integer readers are called on
DecoderBytes == {0, 1, 127, 128, 255}

DecoderModules ==
    UNION { { <<b>> : b \in [1..n -> DecoderBytes] } : n \in 0..MaxDecoderLen }

InitDecoder == \E m \in DecoderModules : InitFrom([i \in {1} |-> m])

\* a call of the reader of the given width on instance i, while the pointer
\* is inside the buffer; the call and its result are recorded
ReaderCall(i, width, r) ==
    /\ vm[i].ip < Len(vm[i].bytecode)
    /\ vm' = [vm EXCEPT ![i] = r.vm]
    /\ run' = [run EXCEPT ![i].outcome = Returns(r.val)]
    /\ trace' = [trace EXCEPT ![i] = Append(@, [at |-> vm[i].ip, width |-> width])]
    /\ UNCHANGED <<module, console>>

ReadUInt16Call(i) == ReaderCall(i, 16, readUInt16(vm[i]))

ReadUInt32Call(i) == ReaderCall(i, 32, readUInt32(vm[i]))

NextDecoder ==
    \/ \E i \in DOMAIN vm : ReadUInt16Call(i)
    \/ \E i \in DOMAIN vm : ReadUInt32Call(i)

SpecDecoder == InitDecoder /\ [][NextDecoder]_vars

\* C18: readUInt16 and readUInt32, called with their bytes inside the buffer,
\* move the pointer by 2 and by 4 and return the unsigned little-endian value
\* of the bytes read: a result that is not negative, whose bits above the low
\* 24 are the most significant byte
C18_UnsignedReaders ==
    \A i \in DOMAIN vm :
        Len(trace[i]) > 0 =>
            LET e == trace[i][Len(trace[i])]
                b(n) == vm[i].bytecode[e.at + n + 1]
                result == run[i].outcome.value
            IN  /\ (e.width = 16 /\ e.at + 2 < Len(vm[i].bytecode)) =>
                    /\ vm[i].ip = e.at + 2
                    /\ result = b(1) + 256 * b(2)
                    /\ result \in 0..65535
                /\ (e.width = 32 /\ e.at + 4 < Len(vm[i].bytecode)) =>
                    /\ vm[i].ip = e.at + 4
                    /\ result >= 0
                    /\ result \div 16777216 = b(4)
                    /\ result % 16777216 = b(1) + 256 * b(2) + 65536 * b(3)

----------------------------------------------------------------------------
(* Invalid flags *)

\* the flags operand of the LOAD_REGEX at position p
FlagsOperand(bytecode, p) ==
    LET q == FirstZeroAfter(bytecode, p)
    IN  Bytes(bytecode, q + 1, FirstZeroAfter(bytecode, q))

\* C19: a LOAD_REGEX whose flags are not valid pushes nothing, leaves the
\* call stack as it was and ends run() with the SyntaxError; afterwards no
\* instruction of the buffer is executed and the stacks stay as they were
C19_InvalidFlagsAreFatal ==
    \A i \in DOMAIN vm : \A k \in Iterations(i) :
        LET e == trace[i][k]
        IN  (e.op = OP_LOAD_REGEX /\ ~ FlagsValid(FlagsOperand(vm[i].bytecode, e.at))) =>
                /\ StackAfter(i, k) = e.stack
                /\ CallStackAfter(i, k) = e.callStack
                /\ IsLatest(i, k) /\ run[i].calls = e.calls =>
                        run[i].pc = "done" /\ run[i].outcome = Throws("SyntaxError")
                /\ \A j \in Iterations(i) : j > k =>
                        /\ trace[i][j].calls > e.calls
                        /\ trace[i][j].op \notin KnownOpcodes
                /\ vm[i].stack = e.stack
                /\ vm[i].callStack = e.callStack

\* a LOAD_REGEX with the flags x, after a LOAD_NULL and before a
\* LOAD_UNDEFINED, has thrown, and a second call of run() has stopped on the
\* terminator of the flags: the stack still holds the null only
C19_Witness ==
    \E i \in DOMAIN vm :
        /\ Len(trace[i]) = 3
        /\ trace[i][1].op = OP_LOAD_NULL
        /\ trace[i][2].op = OP_LOAD_REGEX
        /\ FlagsOperand(vm[i].bytecode, trace[i][2].at) = <<120>>
        /\ trace[i][3].op = 0
        /\ trace[i][3].calls = 2
        /\ At(vm[i].bytecode, vm[i].ip + 1) = OP_LOAD_UNDEFINED
        /\ vm[i].stack = <<Null>>
        /\ run[i].pc = "done"

----------------------------------------------------------------------------
(* The depth of the call stack *)

\* C20: up to the end of the first call of run() the call stack holds at most
\* one frame, and a RETURN of that call leaves the evaluation stack as it
\* was less its top element: the returned value is not pushed back
C20_ReturnTakesOneElement ==
    \A i \in DOMAIN vm :
        /\ run[i].calls <= 1 => Len(vm[i].callStack) <= 1
        /\ \A k \in Iterations(i) :
            LET e == trace[i][k]
            IN  (e.op = OP_RETURN /\ e.calls = 1) =>
                    /\ Len(e.callStack) <= 1
                    /\ Len(StackAfter(i, k)) = Len(e.stack) - 1
                    /\ StackAfter(i, k) = SubSeq(e.stack, 1, Len(e.stack) - 1)

====
